---------------------------- MODULE Spec2Model ----------------------------
(***************************************************************************)
(* Model of the PII detector of src/project/detector_nlu.py.               *)
(*                                                                         *)
(* Text is a sequence of Unicode code points, Latin-1 (0..255) and the     *)
(* dotless i (305): "Rua" is <<82,117,97>>.  Offsets are Python offsets    *)
(* (0-based, end exclusive),                                               *)
(* so text[a:b] is PySlice(text, a, b).  Every string function            *)
(* of the source (lower, strip, split, in, re.finditer) is modelled by     *)
(* what it does on those code points.                                      *)
(***************************************************************************)
EXTENDS Integers, Sequences, FiniteSets, TLC

Max(a, b) == IF a >= b THEN a ELSE b
Min(a, b) == IF a <= b THEN a ELSE b

\* min(S) and max(S) of a non-empty set of integers.
SetMin(S) == CHOOSE x \in S : \A y \in S : x <= y
SetMax(S) == CHOOSE x \in S : \A y \in S : x >= y

(***************************************************************************)
(* Characters: str.lower, str.isspace / \s, \d and \w of Python 3 on       *)
(* the code points of the model, and the letters re.IGNORECASE takes for   *)
(* the same.                                                               *)
(***************************************************************************)
\* The code points texts are made of.
Codigos == (0..255) \cup {305}

Lower(c) == IF (c >= 65 /\ c <= 90) \/ (c >= 192 /\ c <= 222 /\ c # 215)
            THEN c + 32 ELSE c

LowerStr(s) == [i \in 1..Len(s) |-> Lower(s[i])]

IsSpace(c) == c \in {9, 10, 11, 12, 13, 28, 29, 30, 31, 32, 133, 160}

IsDigit(c) == c >= 48 /\ c <= 57

IsUpperAZ(c) == c >= 65 /\ c <= 90

IsAlphaAZ(c) == (c >= 65 /\ c <= 90) \/ (c >= 97 /\ c <= 122)

IsWord(c) == \/ IsDigit(c)
             \/ IsAlphaAZ(c)
             \/ c = 95
             \/ c \in {170, 178, 179, 181, 185, 186, 188, 189, 190}
             \/ (c >= 192 /\ c <= 255 /\ c # 215 /\ c # 247)
             \/ c = 305

\* re.IGNORECASE: two characters match when they have the same lower case;
\* the dotless i also matches i and I.
IgnoreCase(c) == IF c = 305 THEN 105 ELSE Lower(c)

(***************************************************************************)
(* Python sequence operations.                                             *)
(***************************************************************************)
\* s[a:b]: a negative index counts from the end, then both are clamped.
PyIndex(n, i) == IF i < 0 THEN Max(0, n + i) ELSE Min(n, i)

PySlice(s, a, b) ==
    LET lo == PyIndex(Len(s), a)
        hi == PyIndex(Len(s), b)
    IN  IF lo >= hi THEN << >> ELSE SubSeq(s, lo + 1, hi)

\* `p in w` for strings: p occurs as a contiguous substring of w.
Contains(p, w) ==
    \E i \in 0..(Len(w) - Len(p)) : \A j \in 1..Len(p) : w[i + j] = p[j]

\* s.replace(c, ''): every occurrence of the character c removed.
RECURSIVE RemoveChar(_, _)
RemoveChar(s, c) ==
    IF s = << >> THEN << >>
    ELSE IF Head(s) = c THEN RemoveChar(Tail(s), c)
         ELSE <<Head(s)>> \o RemoveChar(Tail(s), c)

\* s.strip(): leading and trailing whitespace removed.
Strip(s) ==
    LET keep == {i \in 1..Len(s) : ~IsSpace(s[i])}
    IN  IF keep = {} THEN << >>
        ELSE LET lo == CHOOSE i \in keep : \A k \in keep : i <= k
                 hi == CHOOSE i \in keep : \A k \in keep : i >= k
             IN  SubSeq(s, lo, hi)

\* s.split(): the maximal runs of non-whitespace characters, in order.
RECURSIVE SplitFrom(_, _)
SplitFrom(s, i) ==
    IF i > Len(s) THEN << >>
    ELSE IF IsSpace(s[i]) THEN SplitFrom(s, i + 1)
    ELSE LET stops == {k \in i..Len(s) : IsSpace(s[k])}
             e == IF stops = {} THEN Len(s) + 1
                  ELSE CHOOSE k \in stops : \A m \in stops : k <= m
         IN  <<SubSeq(s, i, e - 1)>> \o SplitFrom(s, e)

Split(s) == SplitFrom(s, 1)

\* Offsets where re.finditer(re.escape(nome), texto, re.IGNORECASE) can match.
OccurrencesIgnoreCase(nome, texto) ==
    {i \in 0..(Len(texto) - Len(nome)) :
        \A j \in 1..Len(nome) : IgnoreCase(texto[i + j]) = IgnoreCase(nome[j])}

(***************************************************************************)
(* The trigger words of public context.                                    *)
(***************************************************************************)
PALAVRAS_GATILHO_PUBLICO ==
    {
      <<104,111,115,112,105,116,97,108>>,  \* hospital
      <<109,97,116,101,114,110,105,100,97,100,101>>,  \* maternidade
      <<117,112,97>>,  \* upa
      <<117,98,115>>,  \* ubs
      <<112,111,115,116,111,32,100,101,32,115,97,250,100,101>>,  \* posto de saúde
      <<99,108,237,110,105,99,97>>,  \* clínica
      <<112,111,108,105,99,108,237,110,105,99,97>>,  \* policlínica
      <<97,109,98,117,108,97,116,243,114,105,111>>,  \* ambulatório
      <<112,114,111,110,116,111,45,115,111,99,111,114,114,111>>,  \* pronto-socorro
      <<112,114,111,110,116,111,32,115,111,99,111,114,114,111>>,  \* pronto socorro
      <<101,115,99,111,108,97>>,  \* escola
      <<99,111,108,233,103,105,111>>,  \* colégio
      <<117,110,105,118,101,114,115,105,100,97,100,101>>,  \* universidade
      <<102,97,99,117,108,100,97,100,101>>,  \* faculdade
      <<105,110,115,116,105,116,117,116,111>>,  \* instituto
      <<102,117,110,100,97,231,227,111>>,  \* fundação
      <<99,114,101,99,104,101>>,  \* creche
      <<99,101,110,116,114,111,32,101,100,117,99,97,99,105,111,110,97,108>>,  \* centro educacional
      <<99,97,109,112,117,115>>,  \* campus
      <<98,105,98,108,105,111,116,101,99,97>>,  \* biblioteca
      <<109,117,115,101,117>>,  \* museu
      <<97,114,113,117,105,118,111>>,  \* arquivo
      <<116,101,97,116,114,111>>,  \* teatro
      <<99,101,110,116,114,111,32,99,117,108,116,117,114,97,108>>,  \* centro cultural
      <<103,97,108,101,114,105,97>>,  \* galeria
      <<97,117,100,105,116,243,114,105,111>>,  \* auditório
      <<99,97,115,97,32,100,101,32,99,117,108,116,117,114,97>>,  \* casa de cultura
      <<109,101,109,111,114,105,97,108>>,  \* memorial
      <<114,117,97>>,  \* rua
      <<114,46>>,  \* r.
      <<114>>,  \* r
      <<97,118,101,110,105,100,97>>,  \* avenida
      <<97,118,46>>,  \* av.
      <<97,118>>,  \* av
      <<97,108,97,109,101,100,97>>,  \* alameda
      <<116,114,97,118,101,115,115,97>>,  \* travessa
      <<112,114,97,231,97>>,  \* praça
      <<108,97,114,103,111>>,  \* largo
      <<114,111,100,111,118,105,97>>,  \* rodovia
      <<101,115,116,114,97,100,97>>,  \* estrada
      <<118,105,97>>,  \* via
      <<118,105,97,100,117,116,111>>,  \* viaduto
      <<112,111,110,116,101>>,  \* ponte
      <<116,250,110,101,108>>,  \* túnel
      <<114,111,116,97,116,243,114,105,97>>,  \* rotatória
      <<112,97,115,115,97,114,101,108,97>>,  \* passarela
      <<118,105,101,108,97>>,  \* viela
      <<98,101,99,111>>,  \* beco
      <<101,100,105,102,237,99,105,111>>,  \* edifício
      <<112,114,233,100,105,111>>,  \* prédio
      <<112,97,108,225,99,105,111>>,  \* palácio
      <<102,243,114,117,109>>,  \* fórum
      <<116,114,105,98,117,110,97,108>>,  \* tribunal
      <<99,97,114,116,243,114,105,111>>,  \* cartório
      <<100,101,108,101,103,97,99,105,97>>,  \* delegacia
      <<98,97,116,97,108,104,227,111>>,  \* batalhão
      <<113,117,97,114,116,101,108>>,  \* quartel
      <<112,114,101,102,101,105,116,117,114,97>>,  \* prefeitura
      <<99,226,109,97,114,97>>,  \* câmara
      <<97,115,115,101,109,98,108,101,105,97>>,  \* assembleia
      <<115,101,99,114,101,116,97,114,105,97>>,  \* secretaria
      <<109,105,110,105,115,116,233,114,105,111>>,  \* ministério
      <<115,101,100,101>>,  \* sede
      <<97,110,101,120,111>>,  \* anexo
      <<108,101,105>>,  \* lei
      <<100,101,99,114,101,116,111>>,  \* decreto
      <<112,111,114,116,97,114,105,97>>,  \* portaria
      <<114,101,115,111,108,117,231,227,111>>,  \* resolução
      <<105,110,115,116,114,117,231,227,111,32,110,111,114,109,97,116,105,118,97>>,  \* instrução normativa
      <<97,116,111,32,110,111,114,109,97,116,105,118,111>>,  \* ato normativo
      <<101,115,116,97,116,117,116,111>>,  \* estatuto
      <<114,101,103,105,109,101,110,116,111>>,  \* regimento
      <<109,101,100,105,100,97,32,112,114,111,118,105,115,243,114,105,97>>,  \* medida provisória
      <<101,109,101,110,100,97>>,  \* emenda
      <<110,111,114,109,97>>,  \* norma
      <<114,101,103,117,108,97,109,101,110,116,111>>,  \* regulamento
      <<100,105,114,101,116,114,105,122>>,  \* diretriz
      <<97,117,116,97,114,113,117,105,97>>,  \* autarquia
      <<102,117,110,100,97,231,227,111,32,112,250,98,108,105,99,97>>,  \* fundação pública
      <<101,109,112,114,101,115,97,32,112,250,98,108,105,99,97>>,  \* empresa pública
      <<112,111,100,101,114,32,101,120,101,99,117,116,105,118,111>>,  \* poder executivo
      <<112,111,100,101,114,32,108,101,103,105,115,108,97,116,105,118,111>>,  \* poder legislativo
      <<112,111,100,101,114,32,106,117,100,105,99,105,225,114,105,111>>,  \* poder judiciário
      <<115,116,102>>,  \* stf
      <<115,116,106>>,  \* stj
      <<116,99,117>>,  \* tcu
      <<99,103,117>>,  \* cgu
      <<109,112>>,  \* mp
      <<99,111,110,115,101,108,104,111>>,  \* conselho
      <<99,111,109,105,115,115,227,111>>,  \* comissão
      <<112,114,111,99,101,115,115,111>>,  \* processo
      <<112,114,111,99,101,100,105,109,101,110,116,111>>,  \* procedimento
      <<112,114,111,116,111,99,111,108,111>>,  \* protocolo
      <<111,102,237,99,105,111>>,  \* ofício
      <<109,101,109,111,114,97,110,100,111>>,  \* memorando
      <<100,101,115,112,97,99,104,111>>,  \* despacho
      <<114,101,108,97,116,243,114,105,111>>,  \* relatório
      <<112,97,114,101,99,101,114>>,  \* parecer
      <<110,111,116,97,32,116,233,99,110,105,99,97>>,  \* nota técnica
      <<101,100,105,116,97,108>>,  \* edital
      <<108,105,99,105,116,97,231,227,111>>,  \* licitação
      <<99,111,110,116,114,97,116,111,32,97,100,109,105,110,105,115,116,114,97,116,105,118,111>>,  \* contrato administrativo
      <<116,101,114,109,111>>,  \* termo
      <<97,116,97>>,  \* ata
      <<115,46,97,46>>,  \* s.a.
      <<115,97>>,  \* sa
      <<115,46,97>>,  \* s.a
      <<108,116,100,97>>,  \* ltda
      <<108,116,100,97,46>>,  \* ltda.
      <<101,105,114,101,108,105>>,  \* eireli
      <<109,101>>,  \* me
      <<109,101,105>>,  \* mei
      <<99,111,109,112,97,110,104,105,97>>,  \* companhia
      <<101,109,112,114,101,115,97>>,  \* empresa
      <<103,114,117,112,111>>,  \* grupo
      <<104,111,108,100,105,110,103>>,  \* holding
      <<97,115,115,111,99,105,97,231,227,111>>,  \* associação
      <<99,111,111,112,101,114,97,116,105,118,97>>,  \* cooperativa
      <<115,105,110,100,105,99,97,116,111>>,  \* sindicato
      <<102,101,100,101,114,97,231,227,111>>,  \* federação
      <<99,111,110,102,101,100,101,114,97,231,227,111>>,  \* confederação
      <<111,110,103>>,  \* ong
      <<111,115,99,105,112>>,  \* oscip
      <<112,114,101,115,105,100,101,110,116,101>>,  \* presidente
      <<100,105,114,101,116,111,114>>,  \* diretor
      <<115,101,99,114,101,116,225,114,105,111>>,  \* secretário
      <<109,105,110,105,115,116,114,111>>,  \* ministro
      <<112,114,101,102,101,105,116,111>>,  \* prefeito
      <<103,111,118,101,114,110,97,100,111,114>>,  \* governador
      <<115,101,110,97,100,111,114>>,  \* senador
      <<100,101,112,117,116,97,100,111>>,  \* deputado
      <<118,101,114,101,97,100,111,114>>,  \* vereador
      <<114,101,108,97,116,111,114>>,  \* relator
      <<115,101,114,118,105,100,111,114>>,  \* servidor
      <<102,117,110,99,105,111,110,225,114,105,111>>,  \* funcionário
      <<103,101,115,116,111,114>>,  \* gestor
      <<99,111,111,114,100,101,110,97,100,111,114>>,  \* coordenador
      <<99,104,101,102,101>>,  \* chefe
      <<115,117,112,101,114,105,110,116,101,110,100,101,110,116,101>>,  \* superintendente
      <<112,114,111,99,117,114,97,100,111,114>>,  \* procurador
      <<112,114,111,103,114,97,109,97>>,  \* programa
      <<112,114,111,106,101,116,111>>,  \* projeto
      <<112,108,97,110,111>>,  \* plano
      <<97,231,227,111>>,  \* ação
      <<105,110,105,99,105,97,116,105,118,97>>,  \* iniciativa
      <<99,97,109,112,97,110,104,97>>,  \* campanha
      <<111,112,101,114,97,231,227,111>>,  \* operação
      <<112,114,234,109,105,111>>,  \* prêmio
      <<109,101,100,97,108,104,97>>,  \* medalha
      <<99,111,109,101,110,100,97>>,  \* comenda
      <<111,114,100,101,109>>,  \* ordem
      <<98,111,108,115,97>>,  \* bolsa
      <<97,117,120,237,108,105,111>>,  \* auxílio
      <<100,97,100,111,115>>,  \* dados
      <<101,115,116,97,116,237,115,116,105,99,97,115>>,  \* estatísticas
      <<105,110,100,105,99,97,100,111,114,101,115>>,  \* indicadores
      <<114,101,108,97,116,243,114,105,111,32,97,110,117,97,108>>,  \* relatório anual
      <<98,97,108,97,110,231,111>>,  \* balanço
      <<100,101,109,111,110,115,116,114,97,116,105,118,111>>,  \* demonstrativo
      <<115,233,114,105,101,32,104,105,115,116,243,114,105,99,97>>,  \* série histórica
      <<112,97,105,110,101,108>>,  \* painel
      <<100,97,115,104,98,111,97,114,100>>,  \* dashboard
      <<99,101,110,115,111>>,  \* censo
      <<105,103,114,101,106,97>>,  \* igreja
      <<99,97,116,101,100,114,97,108>>,  \* catedral
      <<98,97,115,237,108,105,99,97>>,  \* basílica
      <<99,97,112,101,108,97>>,  \* capela
      <<109,111,115,116,101,105,114,111>>,  \* mosteiro
      <<99,111,110,118,101,110,116,111>>,  \* convento
      <<116,101,109,112,108,111>>,  \* templo
      <<115,97,110,116,117,225,114,105,111>>,  \* santuário
      <<112,97,114,243,113,117,105,97>>,  \* paróquia
      <<100,105,111,99,101,115,101>>,  \* diocese
      <<98,97,105,114,114,111>>,  \* bairro
      <<100,105,115,116,114,105,116,111>>,  \* distrito
      <<114,101,103,105,227,111>>,  \* região
      <<122,111,110,97>>,  \* zona
      <<115,101,116,111,114>>,  \* setor
      <<113,117,97,100,114,97>>,  \* quadra
      <<108,111,116,101>>,  \* lote
      <<107,109>>,  \* km
      <<99,101,112>>,  \* cep
      <<101,110,100,101,114,101,231,111>>,  \* endereço
      <<108,111,103,114,97,100,111,117,114,111>>  \* logradouro
    }

\* Lowercased, with and without the dots.
PALAVRAS_GATILHO_PUBLICO_NORMALIZED ==
    {LowerStr(palavra) : palavra \in PALAVRAS_GATILHO_PUBLICO}
      \cup {RemoveChar(LowerStr(palavra), 46) : palavra \in PALAVRAS_GATILHO_PUBLICO}

\* janela of extrair_contexto_nome ("contexto expandido").
JANELA_CONTEXTO == 100

\* Default janela of tem_contexto_publico.
JANELA_PADRAO == 50

\* A set of trigger words by their first character.
PorInicial(gatilhos) ==
    [c \in Codigos |-> {palavra \in gatilhos : palavra[1] = c}]

\* The normalized trigger words by their first character.
GatilhosPorInicial == PorInicial(PALAVRAS_GATILHO_PUBLICO_NORMALIZED)

\* The words of a lexicon with `palavra in contexto`: a word is in the
\* context iff it lies at some offset of it, and then its first character is
\* the character at that offset.
PalavrasEncontradas(por_inicial, contexto) ==
    UNION {{palavra \in por_inicial[contexto[k]] :
               /\ Len(palavra) <= Len(contexto) - k + 1
               /\ \A j \in 1..Len(palavra) : contexto[k + j - 1] = palavra[j]} :
           k \in 1..Len(contexto)}

\* The words of PALAVRAS_GATILHO_PUBLICO_NORMALIZED in the context.
PalavrasNoContexto(contexto) == PalavrasEncontradas(GatilhosPorInicial, contexto)

\* A faulty Contexto that does not clamp the window to the text.
ContextoSemLimite(texto, pos_inicio, pos_fim, janela) ==
    PySlice(texto, pos_inicio - janela, pos_fim + janela)

\* texto[inicio_contexto:fim_contexto], the window around a name.
Contexto(texto, pos_inicio, pos_fim, janela) ==
    PySlice(texto, Max(0, pos_inicio - janela),
                   Min(Len(texto), pos_fim + janela))

tem_contexto_publico(texto, pos_inicio, pos_fim, janela) ==
    PalavrasNoContexto(LowerStr(Contexto(texto, pos_inicio, pos_fim, janela))) # {}

\* The dict extrair_contexto_nome returns.  The list of matched trigger
\* words is kept as a set (the source appends them in the iteration order of
\* a Python set).
ContextoInfo(palavras_encontradas, contexto) ==
    [tem_contexto_publico |-> palavras_encontradas # {},
     palavras_gatilho_encontradas |-> palavras_encontradas,
     contexto |-> Strip(contexto)]

\* "Analisa primeira ocorrencia": the window of janela = 100 around the
\* match and the trigger words in it.
PrimeiraOcorrencia(por_inicial, texto, pos_inicio, pos_fim) ==
    ContextoInfo(
        PalavrasEncontradas(por_inicial,
            LowerStr(Contexto(texto, pos_inicio, pos_fim, JANELA_CONTEXTO))),
        Contexto(texto, pos_inicio, pos_fim, JANELA_CONTEXTO))

\* extrair_contexto_nome with the value the module global
\* PALAVRAS_GATILHO_PUBLICO_NORMALIZED holds, given by first character.
ExtrairContextoNome(por_inicial, texto, nome, matches) ==
    IF matches = {}
    THEN [tem_contexto_publico |-> FALSE,
          palavras_gatilho_encontradas |-> {},
          contexto |-> << >>]
    ELSE PrimeiraOcorrencia(por_inicial, texto, SetMin(matches),
                            SetMin(matches) + Len(nome))

extrair_contexto_nome(texto, nome) ==
    ExtrairContextoNome(GatilhosPorInicial, texto, nome,
                        OccurrencesIgnoreCase(nome, texto))

(***************************************************************************)
(* Numbers written in words.                                               *)
(***************************************************************************)
\* The dict NUMEROS_EXTENSO in insertion order: word, digit string.
NUMEROS_EXTENSO ==
    <<
       [palavra |-> <<122,101,114,111>>, digitos |-> <<48>>],  \* zero: 0
       [palavra |-> <<117,109>>, digitos |-> <<49>>],  \* um: 1
       [palavra |-> <<100,111,105,115>>, digitos |-> <<50>>],  \* dois: 2
       [palavra |-> <<116,114,234,115>>, digitos |-> <<51>>],  \* três: 3
       [palavra |-> <<116,114,101,115>>, digitos |-> <<51>>],  \* tres: 3
       [palavra |-> <<113,117,97,116,114,111>>, digitos |-> <<52>>],  \* quatro: 4
       [palavra |-> <<99,105,110,99,111>>, digitos |-> <<53>>],  \* cinco: 5
       [palavra |-> <<115,101,105,115>>, digitos |-> <<54>>],  \* seis: 6
       [palavra |-> <<115,101,116,101>>, digitos |-> <<55>>],  \* sete: 7
       [palavra |-> <<111,105,116,111>>, digitos |-> <<56>>],  \* oito: 8
       [palavra |-> <<110,111,118,101>>, digitos |-> <<57>>],  \* nove: 9
       [palavra |-> <<100,101,122>>, digitos |-> <<49,48>>]  \* dez: 10
    >>

\* s.strip(chars): leading and trailing characters of the set removed.
StripChars(s, chars) ==
    LET keep == {i \in 1..Len(s) : s[i] \notin chars}
    IN  IF keep = {} THEN << >>
        ELSE LET lo == CHOOSE i \in keep : \A k \in keep : i <= k
                 hi == CHOOSE i \in keep : \A k \in keep : i >= k
             IN  SubSeq(s, lo, hi)

\* ''.join(parts)
RECURSIVE Join(_)
Join(parts) == IF parts = << >> THEN << >> ELSE Head(parts) \o Join(Tail(parts))

normalizar_numero_extenso(texto) ==
    LET palavras == Split(LowerStr(texto))
        \* '.,;:!?'
        limpa(palavra) == StripChars(palavra, {46, 44, 59, 58, 33, 63})
        known(palavra) == {n \in 1..Len(NUMEROS_EXTENSO) :
                              NUMEROS_EXTENSO[n].palavra = limpa(palavra)}
        digitos == [i \in 1..Len(palavras) |->
                      IF known(palavras[i]) = {} THEN << >>
                      ELSE NUMEROS_EXTENSO[CHOOSE n \in known(palavras[i]) : TRUE].digitos]
    IN  IF \E i \in 1..Len(palavras) : known(palavras[i]) # {}
        THEN Join(digitos) ELSE texto

\* \b at offset pos: exactly one of the characters around it is a word character.
WordBoundary(t, pos) ==
    LET before == pos > 0 /\ IsWord(t[pos])
        after == pos < Len(t) /\ IsWord(t[pos + 1])
    IN  before # after

\* (?:zero|um|...) at offset pos under re.IGNORECASE: the offset after the
\* first alternative that matches there, or -1.
NumberWordFits(t, pos, palavra) ==
    /\ pos + Len(palavra) <= Len(t)
    /\ \A j \in 1..Len(palavra) : IgnoreCase(t[pos + j]) = IgnoreCase(palavra[j])

FirstAlternativeEnd(pos, alts) ==
    IF alts = {} THEN -1 ELSE pos + Len(NUMEROS_EXTENSO[SetMin(alts)].palavra)

NumberWordEnd(t, pos) ==
    FirstAlternativeEnd(pos, {n \in 1..Len(NUMEROS_EXTENSO) :
                                 NumberWordFits(t, pos, NUMEROS_EXTENSO[n].palavra)})

\* \s+ from offset pos: the offset of the next character that is no
\* whitespace (the end of the text if there is none).
SkipSpaces(t, pos) ==
    SetMin({k \in pos..Len(t) : k = Len(t) \/ ~IsSpace(t[k + 1])})

\* \s+(?:word) at offset pos: the offset after the word, or -1.
SpacedNumberWordEnd(t, pos) ==
    IF SkipSpaces(t, pos) > pos THEN NumberWordEnd(t, SkipSpaces(t, pos)) ELSE -1

\* Greedy (?:\s+(?:word))*: the offsets after each further number word.
RECURSIVE MoreNumberWords(_, _)
MoreNumberWords(t, pos) ==
    IF SpacedNumberWordEnd(t, pos) < 0 THEN << >>
    ELSE <<SpacedNumberWordEnd(t, pos)>>
           \o MoreNumberWords(t, SpacedNumberWordEnd(t, pos))

\* The repetition {2,} gives words back until the final \b holds: the last
\* of the offsets, from the second on, that is a word boundary, or -1.
LastBoundary(t, more) ==
    IF \E j \in 2..Len(more) : WordBoundary(t, more[j])
    THEN more[SetMax({j \in 2..Len(more) : WordBoundary(t, more[j])})]
    ELSE -1

\* \b(?:word)(?:\s+(?:word)){2,}\b at offset pos: the end offset, or -1.
ExtensoMatchEnd(t, pos) ==
    IF WordBoundary(t, pos) /\ NumberWordEnd(t, pos) >= 0
    THEN LastBoundary(t, MoreNumberWords(t, NumberWordEnd(t, pos)))
    ELSE -1

\* re.finditer over the matches a pattern has at each offset: the leftmost
\* one, then the search resumes at the offset where it ended.
RECURSIVE Leftmost(_, _)
Leftmost(matches, pos) ==
    LET ahead == {m \in matches : m.start >= pos}
        first == CHOOSE m \in ahead : \A o \in ahead : m.start <= o.start
    IN  IF ahead = {} THEN << >>
        ELSE <<first>> \o Leftmost(matches, first.end)

\* The match of padrao_extenso at each offset that has one.
ExtensoMatches(texto) ==
    {m \in {[start |-> p, end |-> ExtensoMatchEnd(texto, p)] :
                p \in 0..(Len(texto) - 1)} : m.end >= 0}

\* The loop body for one match: kept when it spells six digits or more.
ExtensoItem(texto, match) ==
    LET texto_extenso == PySlice(texto, match.start, match.end)
        valor_numerico == normalizar_numero_extenso(texto_extenso)
    IN  IF Len(valor_numerico) >= 6
        THEN <<[start |-> match.start, end |-> match.end,
                texto_original |-> texto_extenso,
                valor_numerico |-> valor_numerico]>>
        ELSE << >>

ExtensoItems(texto, found) ==
    Join([n \in 1..Len(found) |-> ExtensoItem(texto, found[n])])

detectar_numeros_extenso(texto) ==
    ExtensoItems(texto, Leftmost(ExtensoMatches(texto), 0))

(***************************************************************************)
(* Regular expressions of the detector: a pattern is a sequence of         *)
(* alternatives, an alternative a sequence of items, an item either \b or  *)
(* a character class with a greedy {min,max} count (max -1: unbounded).    *)
(***************************************************************************)
WB == [b |-> TRUE, cls |-> {}, min |-> 0, max |-> 0]

Rep(cls, min, max) == [b |-> FALSE, cls |-> cls, min |-> min, max |-> max]

Digit == 48..57
Space == {9, 10, 11, 12, 13, 28, 29, 30, 31, 32, 133, 160}
UpperAZ == 65..90
AlphaAZ == (65..90) \cup (97..122)
Dot == {46}
Hyphen == {45}
\* [a-zA-Z0-9._%+-]
EmailLocal == AlphaAZ \cup Digit \cup {46, 95, 37, 43, 45}
\* [a-zA-Z0-9.-]
EmailDomain == AlphaAZ \cup Digit \cup {46, 45}

\* self.regex_patterns, in insertion order.
regex_patterns ==
    << [entity_type |-> "CPF",
        alts |-> << <<WB, Rep(Digit, 3, 3), Rep(Dot, 0, 1), Rep(Digit, 3, 3),
                      Rep(Dot, 0, 1), Rep(Digit, 3, 3), Rep(Hyphen, 0, 1),
                      Rep(Digit, 2, 2), WB>> >>],
       [entity_type |-> "RG",
        alts |-> << <<WB, Rep(Digit, 2, 2), Rep(Dot, 0, 1), Rep(Digit, 3, 3),
                      Rep(Dot, 0, 1), Rep(Digit, 3, 3), Rep(Hyphen, 0, 1),
                      Rep(Digit, 1, 1), WB>>,
                    <<WB, Rep(Digit, 9, 9), WB>>,
                    <<WB, Rep(Digit, 2, 2), Rep(Dot, 0, 1), Rep(Digit, 3, 3),
                      Rep(Dot, 0, 1), Rep(Digit, 3, 3), WB>> >>],
       [entity_type |-> "CIN",
        alts |-> << <<WB, Rep(Digit, 4, 4), Rep(Space, 0, 1), Rep(Digit, 4, 4),
                      Rep(Space, 0, 1), Rep(Digit, 4, 4), WB>>,
                    <<WB, Rep(Digit, 12, 12), WB>> >>],
       [entity_type |-> "PASSAPORTE",
        alts |-> << <<WB, Rep(UpperAZ, 2, 2), Rep(Digit, 6, 6), WB>> >>],
       [entity_type |-> "EMAIL",
        alts |-> << <<WB, Rep(EmailLocal, 1, -1), Rep({64}, 1, 1),
                      Rep(EmailDomain, 1, -1), Rep(Dot, 1, 1),
                      Rep(AlphaAZ, 2, -1), WB>> >>],
       [entity_type |-> "TELEFONE",
        alts |-> << <<WB, Rep({40}, 0, 1), Rep(Digit, 2, 2), Rep({41}, 0, 1),
                      Rep(Space, 0, 1), Rep(Digit, 4, 5),
                      Rep(Hyphen \cup Space, 0, 1), Rep(Digit, 4, 4), WB>> >>] >>

\* How many characters from offset pos on, at most lim, lie in cls.
RunLength(cls, t, pos, lim) ==
    IF lim = 0 \/ t[pos + 1] \notin cls THEN 0
    ELSE LET bad == {n \in 1..lim : t[pos + n] \notin cls}
         IN  IF bad = {} THEN lim
             ELSE (CHOOSE n \in bad : \A m \in bad : n <= m) - 1

\* Backtracking match of items k.. of one alternative at offset pos: the end
\* offset of the match, or -1.  A counted class is greedy: it takes the
\* longest run that lets the rest of the alternative match.
RECURSIVE MatchItems(_, _, _, _)
MatchItems(pat, k, t, pos) ==
    IF k > Len(pat) THEN pos
    ELSE IF pat[k].b
         THEN IF WordBoundary(t, pos) THEN MatchItems(pat, k + 1, t, pos) ELSE -1
         ELSE LET room == Len(t) - pos
                  lim == IF pat[k].max < 0 THEN room ELSE Min(pat[k].max, room)
                  run == RunLength(pat[k].cls, t, pos, lim)
                  ok == {n \in pat[k].min..run :
                            MatchItems(pat, k + 1, t, pos + n) >= 0}
              IN  IF ok = {} THEN -1
                  ELSE MatchItems(pat, k + 1, t,
                                  pos + CHOOSE n \in ok : \A m \in ok : n >= m)

\* The alternatives are tried in order at the same offset.
RECURSIVE MatchAlts(_, _, _, _)
MatchAlts(alts, a, t, pos) ==
    IF a > Len(alts) THEN -1
    ELSE LET r == MatchItems(alts[a], 1, t, pos)
         IN  IF r >= 0 THEN r ELSE MatchAlts(alts, a + 1, t, pos)

\* The offsets of the word boundaries of a text.
Boundaries(t) == {p \in 0..Len(t) : WordBoundary(t, p)}

\* The offsets where a match of the pattern can start: when every
\* alternative opens with \b, only the word boundaries.
StartOffsets(alts, t, boundaries) ==
    IF \A a \in 1..Len(alts) : alts[a][1].b
    THEN boundaries \ {Len(t)}
    ELSE 0..(Len(t) - 1)

\* re.finditer(pattern, text), given the word boundaries of the text: the
\* match of the pattern at each offset that has one, leftmost first and
\* without overlap.
FindIter(alts, t, boundaries) ==
    Leftmost({m \in {[start |-> p, end |-> MatchAlts(alts, 1, t, p)] :
                         p \in StartOffsets(alts, t, boundaries)} :
                 m.end > m.start}, 0)

(***************************************************************************)
(* PIIDetector.predict.  doc_ents is what self.nlp(text).ents holds: a     *)
(* sequence of [start_char, end_char, label_]; ent.text is the slice.      *)
(* confidence is in hundredths (95 for 0.95).                              *)
(***************************************************************************)
\* The dict appended for one regex match.
RegexEntity(text, entity_type, match) ==
    [start |-> match.start, end |-> match.end,
     value |-> PySlice(text, match.start, match.end),
     entity |-> entity_type,
     extractor |-> "RegexEntityExtractor"]

PatternEntities(text, entity_type, found) ==
    [m \in 1..Len(found) |-> RegexEntity(text, entity_type, found[m])]

\* Every pattern in order, every match of it in order.
PatternsEntities(text, boundaries) ==
    Join([p \in 1..Len(regex_patterns) |->
            PatternEntities(text, regex_patterns[p].entity_type,
                            FindIter(regex_patterns[p].alts, text, boundaries))])

\* 1. Regex.
RegexEntities(text) == PatternsEntities(text, Boundaries(text))

\* A faulty ExtensoEntity that takes 12 digits for the CPF and 11 for the CIN.
ExtensoEntitySwapped(num_ext, tamanho) ==
    [start |-> num_ext.start, end |-> num_ext.end,
     value |-> num_ext.texto_original,
     valor_numerico |-> num_ext.valor_numerico,
     entity |-> IF tamanho = 12 THEN "CPF"
                ELSE IF tamanho = 11 THEN "CIN" ELSE "RG",
     extractor |-> "NumeroExtensoExtractor"]

\* The dict appended for one number in words, labelled by the length of the
\* digit string.
ExtensoEntity(num_ext, tamanho) ==
    [start |-> num_ext.start, end |-> num_ext.end,
     value |-> num_ext.texto_original,
     valor_numerico |-> num_ext.valor_numerico,
     entity |-> IF tamanho = 11 THEN "CPF"
                ELSE IF tamanho = 12 THEN "CIN" ELSE "RG",
     extractor |-> "NumeroExtensoExtractor"]

NumerosEntities(numeros_extenso) ==
    [n \in 1..Len(numeros_extenso) |->
        ExtensoEntity(numeros_extenso[n], Len(numeros_extenso[n].valor_numerico))]

\* 2. Numbers in words.
ExtensoEntities(text) == NumerosEntities(detectar_numeros_extenso(text))

EntText(text, ent) == PySlice(text, ent.start_char, ent.end_char)

\* A faulty KeepsEnt that takes a single name for a person too.
KeepsEntAnyLength(text, usar_contexto, ent) ==
    /\ ent.label_ = "PESSOA"
    /\ ~(usar_contexto
         /\ extrair_contexto_nome(text, EntText(text, ent)).tem_contexto_publico)

\* A faulty KeepsEnt that forgets the context filter.
KeepsEntUnfiltered(text, usar_contexto, ent) ==
    /\ ent.label_ = "PESSOA"
    /\ Len(Split(EntText(text, ent))) >= 2

\* The test of one recognizer entity: label, token count, context filter.
KeepsEnt(text, usar_contexto, ent) ==
    /\ ent.label_ = "PESSOA"
    /\ Len(Split(EntText(text, ent))) >= 2
    /\ ~(usar_contexto
         /\ extrair_contexto_nome(text, EntText(text, ent)).tem_contexto_publico)

\* The dict appended for one recognizer entity.
NerEntity(text, ent) ==
    [start |-> ent.start_char, end |-> ent.end_char,
     value |-> EntText(text, ent), entity |-> "PESSOA",
     extractor |-> "IntentEntityClassifier"]

KeptEntities(text, kept) == [n \in 1..Len(kept) |-> NerEntity(text, kept[n])]

\* 3. NER with the context filter.
NerEntities(text, usar_contexto, doc_ents) ==
    LET keep(ent) == KeepsEnt(text, usar_contexto, ent)
    IN  KeptEntities(text, SelectSeq(doc_ents, keep))

\* A faulty HasPii that is off by one.
HasPiiSeveral(entities) == Len(entities) > 1

HasPii(entities) == Len(entities) > 0

\* A faulty Resultado whose confidence grows with the number of entities.
ResultadoGraduado(text, entities, has_pii) ==
    [intent |-> IF has_pii THEN "tem_pii" ELSE "publico",
     confidence |-> IF has_pii THEN Min(100, 90 + 5 * Len(entities)) ELSE 85,
     entities |-> entities,
     text |-> text]

\* The dict predict returns for the entities it collected.
Resultado(text, entities, has_pii) ==
    [intent |-> IF has_pii THEN "tem_pii" ELSE "publico",
     confidence |-> IF has_pii THEN 95 ELSE 85,
     entities |-> entities,
     text |-> text]

\* A faulty WithNames in which a name in public context makes the whole
\* document public.
WithNamesPublicVeto(entities, text, usar_contexto, trained, doc_ents) ==
    IF /\ trained
       /\ usar_contexto
       /\ \E n \in 1..Len(doc_ents) :
             /\ KeepsEntUnfiltered(text, usar_contexto, doc_ents[n])
             /\ ~KeepsEnt(text, usar_contexto, doc_ents[n])
    THEN << >>
    ELSE entities \o (IF trained THEN NerEntities(text, usar_contexto, doc_ents)
                      ELSE << >>)

\* A faulty WithNames that runs the recognizer in an untrained detector too.
WithNamesUngated(entities, text, usar_contexto, trained, doc_ents) ==
    entities \o NerEntities(text, usar_contexto, doc_ents)

\* Step 3 of predict: the names the recognizer found are appended to the
\* entities collected so far, in a trained detector only.
WithNames(entities, text, usar_contexto, trained, doc_ents) ==
    entities \o (IF trained THEN NerEntities(text, usar_contexto, doc_ents)
                 ELSE << >>)

\* A faulty Entities that puts the identifiers under the context filter too.
EntitiesAllFiltered(text, usar_contexto, trained, doc_ents) ==
    (IF usar_contexto /\ tem_contexto_publico(text, 0, Len(text), JANELA_PADRAO)
     THEN << >> ELSE RegexEntities(text) \o ExtensoEntities(text))
      \o (IF trained THEN NerEntities(text, usar_contexto, doc_ents) ELSE << >>)

\* The list predict collects: regex, numbers in words, then names.
Entities(text, usar_contexto, trained, doc_ents) ==
    WithNames(RegexEntities(text) \o ExtensoEntities(text),
              text, usar_contexto, trained, doc_ents)

Classify(text, entities) == Resultado(text, entities, HasPii(entities))

predict(text, usar_contexto, trained, doc_ents) ==
    Classify(text, Entities(text, usar_contexto, trained, doc_ents))

(***************************************************************************)
(* Inputs.                                                                 *)
(***************************************************************************)
\* "Hospital Dr. João Silva"
TXT_HOSPITAL ==
    <<72,111,115,112,105,116,97,108,32,68,114,46,32,74,111,227,111,32,83,105,108,118,97>>

\* "Rua Maria Santos"
TXT_RUA ==
    <<82,117,97,32,77,97,114,105,97,32,83,97,110,116,111,115>>

\* "Lei Carlos Alberto"
TXT_LEI ==
    <<76,101,105,32,67,97,114,108,111,115,32,65,108,98,101,114,116,111>>

\* "João Silva solicitou acesso"
TXT_SOLICITOU ==
    <<74,111,227,111,32,83,105,108,118,97,32,115,111,108,105,99,105,116,111,117,32,97,99,101,115,115,111>>

\* "Requerente: Maria Santos"
TXT_REQUERENTE ==
    <<82,101,113,117,101,114,101,110,116,101,58,32,77,97,114,105,97,32,83,97,110,116,111,115>>

\* "Cidadão Pedro Oliveira"
TXT_CIDADAO ==
    <<67,105,100,97,100,227,111,32,80,101,100,114,111,32,79,108,105,118,101,105,114,97>>

\* "Maria Santos"
TXT_MARIA ==
    <<77,97,114,105,97,32,83,97,110,116,111,115>>

\* "João Silva"
TXT_JOAO ==
    <<74,111,227,111,32,83,105,108,118,97>>

\* "CPF: 123.456.789-00"
TXT_CPF ==
    <<67,80,70,58,32,49,50,51,46,52,53,54,46,55,56,57,45,48,48>>

\* "RG um dois dez dez"
TXT_EXTENSO ==
    <<82,71,32,117,109,32,100,111,105,115,32,100,101,122,32,100,101,122>>

\* "Hospital João Silva solicitou"
TXT_HOSPITAL_SOLICITOU ==
    <<72,111,115,112,105,116,97,108,32,74,111,227,111,32,83,105,108,118,97,32,115,111,108,105,99,105,116,111,117>>

\* "Email: ana@gmail.com"
TXT_EMAIL ==
    <<69,109,97,105,108,58,32,97,110,97,64,103,109,97,105,108,46,99,111,109>>

\* "Telefone: (61) 99999-1234"
TXT_TELEFONE ==
    <<84,101,108,101,102,111,110,101,58,32,40,54,49,41,32,57,57,57,57,57,45,49,50,51,52>>

\* "Hospital CPF 12345678900"
TXT_HOSPITAL_CPF ==
    <<72,111,115,112,105,116,97,108,32,67,80,70,32,49,50,51,52,53,54,55,56,57,48,48>>

\* "Rua Ana Lima "
STR_RUA_ANA ==
    <<82,117,97,32,65,110,97,32,76,105,109,97,32>>

\* "Ana Lima"
STR_ANA ==
    <<65,110,97,32,76,105,109,97>>

\* " Ana Lima solicitou"
STR_ANA_SOLICITOU ==
    <<32,65,110,97,32,76,105,109,97,32,115,111,108,105,99,105,116,111,117>>

\* "Rua "
STR_RUA ==
    <<82,117,97,32>>

\* " Rua Ana Lima"
STR_SP_RUA_ANA ==
    <<32,82,117,97,32,65,110,97,32,76,105,109,97>>

\* "solicitou"
STR_SOLICITOU ==
    <<115,111,108,105,99,105,116,111,117>>

\* "requerente"
STR_REQUERENTE ==
    <<114,101,113,117,101,114,101,110,116,101>>

\* "cidadão"
STR_CIDADAO ==
    <<99,105,100,97,100,227,111>>

\* "Pedro Oliveira"
STR_PEDRO ==
    <<80,101,100,114,111,32,79,108,105,118,101,105,114,97>>

\* "requisitou"
STR_REQUISITOU ==
    <<114,101,113,117,105,115,105,116,111,117>>

\* "titular dos dados"
STR_TITULAR ==
    <<116,105,116,117,108,97,114,32,100,111,115,32,100,97,100,111,115>>

\* A run of n letters x: text that holds no trigger word and no identifier.
Filler(n) == [i \in 1..n |-> 120]

\* The name twice: next to "Rua" first, then beyond the window, with a verb.
TXT_RUA_FAR_VERB == STR_RUA_ANA \o Filler(JANELA_CONTEXTO + 1) \o STR_ANA_SOLICITOU

\* The name twice: bare first, then beyond the window, next to "Rua" and
\* followed by a verb.
TXT_BARE_FAR_RUA ==
    STR_ANA \o <<32>> \o Filler(JANELA_CONTEXTO + 1) \o STR_SP_RUA_ANA
      \o <<32>> \o STR_SOLICITOU

\* "Rua" 41 characters before the name: inside the window of 100.
TXT_RUA_MID == STR_RUA \o Filler(40) \o <<32>> \o STR_ANA

\* "Rua" more than 100 characters before the name.
TXT_RUA_FAR == STR_RUA \o Filler(JANELA_CONTEXTO + 1) \o <<32>> \o STR_ANA

Textos ==
    {TXT_HOSPITAL, TXT_RUA, TXT_LEI, TXT_SOLICITOU, TXT_REQUERENTE, TXT_CIDADAO,
     TXT_MARIA, TXT_JOAO, TXT_CPF, TXT_EXTENSO, TXT_HOSPITAL_SOLICITOU,
     TXT_EMAIL, TXT_TELEFONE, TXT_HOSPITAL_CPF,
     TXT_RUA_FAR_VERB, TXT_BARE_FAR_RUA, TXT_RUA_MID, TXT_RUA_FAR}

(***************************************************************************)
(* Texts with numbers written in words.                                    *)
(***************************************************************************)
\* "dez dez dez"
EXT_DEZ3 ==
    <<100,101,122,32,100,101,122,32,100,101,122>>

\* "um dois três quatro cinco"
EXT_CINCO ==
    <<117,109,32,100,111,105,115,32,116,114,234,115,32,113,117,97,116,114,111,32,99,105,110,99,111>>

\* "um dois tres quatro cinco seis"
EXT_SEIS ==
    <<117,109,32,100,111,105,115,32,116,114,101,115,32,113,117,97,116,114,111,32,99,105,110,99,111,32,115,101,105,115>>

\* "UM DOIS TRÊS QUATRO CINCO SEIS"
EXT_MAIUSCULAS ==
    <<85,77,32,68,79,73,83,32,84,82,202,83,32,81,85,65,84,82,79,32,67,73,78,67,79,32,83,69,73,83>>

\* "um dez"
EXT_DOIS ==
    <<117,109,32,100,101,122>>

\* "dez dez dez doıs"
EXT_SEM_PINGO ==
    <<100,101,122,32,100,101,122,32,100,101,122,32,100,111,305,115>>

\* "xum dois três quatro cinco seis sete"
EXT_COLADO ==
    <<120,117,109,32,100,111,105,115,32,116,114,234,115,32,113,117,97,116,114,111,32,99,105,110,99,111,32,115,101,105,115,32,115,101,116,101>>

\* "um dois três quatro cinco seis, sete oito nove zero um dois"
EXT_VIRGULA ==
    <<117,109,32,100,111,105,115,32,116,114,234,115,32,113,117,97,116,114,111,32,99,105,110,99,111,32,115,101,105,115,44,32,115,101,116,101,32,111,105,116,111,32,110,111,118,101,32,122,101,114,111,32,117,109,32,100,111,105,115>>

\* "CPF:um  dois\ttrês quatro cinco seis."
EXT_ESPACOS ==
    <<67,80,70,58,117,109,32,32,100,111,105,115,9,116,114,234,115,32,113,117,97,116,114,111,32,99,105,110,99,111,32,115,101,105,115,46>>

\* "um dez dez dez dez, um dez dez dez dez dez, dez dez dez dez dez dez"
EXT_DOCUMENTOS ==
    <<117,109,32,100,101,122,32,100,101,122,32,100,101,122,32,100,101,122,44,32,117,109,32,100,101,122,32,100,101,122,32,100,101,122,32,100,101,122,32,100,101,122,44,32,100,101,122,32,100,101,122,32,100,101,122,32,100,101,122,32,100,101,122,32,100,101,122>>

\* "dez dez dez dez dez"
EXT_DEZ5 ==
    <<100,101,122,32,100,101,122,32,100,101,122,32,100,101,122,32,100,101,122>>

TextosExtenso ==
    {EXT_DEZ3, EXT_CINCO, EXT_SEIS, EXT_MAIUSCULAS, EXT_DOIS, EXT_SEM_PINGO,
     EXT_COLADO, EXT_VIRGULA, EXT_ESPACOS, EXT_DOCUMENTOS, EXT_DEZ5}

\* Bound of the recognizer's output: entities per document.
MaxEnts == 1

\* Labels the recognizer may give: the one added by __init__, and another.
Labels == {"PESSOA", "LOC"}

\* Two neighbouring characters the tokenizer of the pipeline never parts:
\* two letters or two digits.  It parts words at whitespace and splits
\* punctuation, hyphens and units from them; which of these it splits
\* depends on its rules and exceptions, so every other place may be the
\* edge of a token.
SameToken(a, b) ==
    \/ IsDigit(a) /\ IsDigit(b)
    \/ (IsWord(a) /\ ~IsDigit(a)) /\ (IsWord(b) /\ ~IsDigit(b))

\* Offsets where a token may start / end.
TokenStarts(t) ==
    {i \in 0..(Len(t) - 1) :
        ~IsSpace(t[i + 1]) /\ (IF i = 0 THEN TRUE ELSE ~SameToken(t[i], t[i + 1]))}

TokenEnds(t) ==
    {j \in 1..Len(t) :
        ~IsSpace(t[j]) /\ (IF j = Len(t) THEN TRUE ELSE ~SameToken(t[j], t[j + 1]))}

\* The spans the recognizer may propose: one token or several in a row.
CandidateSpans(t) ==
    {sp \in [start_char : TokenStarts(t), end_char : TokenEnds(t)] :
        sp.start_char < sp.end_char}

\* Sequences of at most n labelled, non-overlapping spans in text order,
\* none starting before offset from.
RECURSIVE EntSeqs(_, _, _)
EntSeqs(t, from, n) ==
    {<< >>} \cup
    (IF n = 0 THEN {}
     ELSE UNION {
            {<<[start_char |-> sp.start_char, end_char |-> sp.end_char,
                label_ |-> lab]>> \o rest :
                rest \in EntSeqs(t, sp.end_char, n - 1), lab \in Labels} :
            sp \in {c \in CandidateSpans(t) : c.start_char >= from}})

Recognizer(t) == EntSeqs(t, 0, MaxEnts)

(***************************************************************************)
(* The detector as a state machine.  One document is classified, possibly  *)
(* several times.  The pipeline self.nlp is a deterministic function of    *)
(* its weights: what it yields for the document is settled the first time  *)
(* predict runs it after train or load replaced the weights.               *)
(***************************************************************************)
VARIABLES
    is_trained,     \* self._is_trained
    text,           \* the document under classification
    usar_contexto,  \* the flag the caller passes to predict
    doc_known,      \* self.nlp has processed text under the current weights
    doc_ents,       \* what self.nlp(text).ents holds then, << >> before
    returned,       \* the values predict returned since the last train/load
    chamada,        \* a call of a function of the module and its arguments
    retorno,        \* what the call returned, << >> before it ran
    lexicon,        \* the module global PALAVRAS_GATILHO_PUBLICO_NORMALIZED
    is_detector_ready,  \* PIIDetectorApp.is_detector_ready
    df_original,    \* PIIDetectorApp.df_original, << >> for None
    column,         \* column_selector.value, << >> for None
    df_result,      \* PIIDetectorApp.df_result, << >> for None
    table_original, \* table_original.value
    table_result,   \* table_result.value
    notifications,  \* the kind of the last notification, "" before any
    pipeline,       \* what self.detector does with the texts it was given
    uploads,        \* how many CSV files were uploaded
    csv_upload_disabled,      \* csv_upload.disabled
    process_button_disabled,  \* process_button.disabled
    download_button_visible,  \* download_button.visible
    batch,          \* a _process_csv on its way: its locals and the progress bar
    calls,          \* the predict calls of several threads: position and locals
    gen             \* a generate_training_data on its way: arguments and examples

detectorVars == <<is_trained, text, usar_contexto, doc_known, doc_ents, returned>>

fnVars == <<chamada, retorno, lexicon>>

widgetVars == <<csv_upload_disabled, process_button_disabled,
                download_button_visible>>

appVars == <<is_detector_ready, df_original, column, df_result,
             table_original, table_result, notifications, pipeline, uploads,
             widgetVars>>

batchVars == <<batch>>

concVars == <<calls>>

genVars == <<gen>>

vars == <<detectorVars, fnVars, appVars, batchVars, concVars, genVars>>

\* No function of the module is being called.
SemChamada ==
    /\ chamada = [fn |-> "", texto |-> << >>, pos_inicio |-> 0, pos_fim |-> 0,
                  janela |-> 0, nome |-> << >>, lexico_vazio |-> FALSE,
                  usar_contexto |-> TRUE]
    /\ retorno = << >>
    /\ lexicon = PALAVRAS_GATILHO_PUBLICO_NORMALIZED

\* A DataFrame without rows or columns, what the tables show at first.
DataFrameVazio == [columns |-> << >>, rows |-> << >>]

\* No application is running.
SemApp ==
    /\ is_detector_ready = FALSE
    /\ df_original = << >>
    /\ column = << >>
    /\ df_result = << >>
    /\ table_original = DataFrameVazio
    /\ table_result = DataFrameVazio
    /\ notifications = ""
    /\ pipeline = {}
    /\ uploads = 0
    /\ csv_upload_disabled = TRUE
    /\ process_button_disabled = TRUE
    /\ download_button_visible = FALSE

\* No _process_csv is on its way and no thread is in predict.
SemBatch == batch = << >> /\ calls = << >>

\* No generate_training_data is on its way.
SemGerador == gen = << >>

\* No document is under classification.
SemDocumento ==
    /\ text = << >>
    /\ usar_contexto = TRUE
    /\ doc_known = FALSE
    /\ doc_ents = << >>
    /\ returned = << >>

\* How many results the history keeps.
MaxReturned == 2

\* PIIDetector.__init__
Init ==
    /\ is_trained = FALSE
    /\ text \in Textos
    /\ usar_contexto \in BOOLEAN
    /\ doc_known = FALSE
    /\ doc_ents = << >>
    /\ returned = << >>
    /\ SemChamada
    /\ SemApp
    /\ SemBatch
    /\ SemGerador

\* PIIDetector.train: new weights.
Train ==
    /\ is_trained' = TRUE
    /\ doc_known' = FALSE
    /\ doc_ents' = << >>
    /\ returned' = << >>
    /\ UNCHANGED <<text, usar_contexto, fnVars, appVars, batchVars, concVars, genVars>>

\* PIIDetector.load: the weights read from disk.
Load ==
    /\ is_trained' = TRUE
    /\ doc_known' = FALSE
    /\ doc_ents' = << >>
    /\ returned' = << >>
    /\ UNCHANGED <<text, usar_contexto, fnVars, appVars, batchVars, concVars, genVars>>

\* PIIDetector.save writes the pipeline to disk and changes nothing here.
Save == UNCHANGED vars

\* A faulty predict that marks the detector trained once it has run.
PredictMarksTrained ==
    /\ Len(returned) < MaxReturned
    /\ \E ents \in (IF doc_known THEN {doc_ents} ELSE Recognizer(text)) :
          /\ doc_ents' = (IF is_trained THEN ents ELSE doc_ents)
          /\ doc_known' = (doc_known \/ is_trained)
          /\ returned' = Append(returned,
                                predict(text, usar_contexto, is_trained, ents))
    /\ is_trained' = TRUE
    /\ UNCHANGED <<text, usar_contexto, fnVars, appVars, batchVars, concVars, genVars>>

\* PIIDetector.predict(text, usar_contexto): self.nlp runs only in a trained
\* detector.  ents is what the pipeline yields for the text when it is run;
\* an untrained detector does not run it, and predict gets it to no effect.
Predict ==
    /\ Len(returned) < MaxReturned
    /\ \E ents \in (IF doc_known THEN {doc_ents} ELSE Recognizer(text)) :
          /\ doc_ents' = (IF is_trained THEN ents ELSE doc_ents)
          /\ doc_known' = (doc_known \/ is_trained)
          /\ returned' = Append(returned,
                                predict(text, usar_contexto, is_trained, ents))
    /\ UNCHANGED <<is_trained, text, usar_contexto, fnVars, appVars, batchVars, concVars, genVars>>

Next == Train \/ Load \/ Save \/ Predict

Spec == Init /\ [][Next]_vars

(***************************************************************************)
(* The functions of the module called by a client: one call with its       *)
(* arguments, then its return value.  A client may also call predict on a  *)
(* detector it has just constructed.                                       *)
(***************************************************************************)
\* How far outside the text the offsets of a call may lie.
Fora == 2

\* Values of janela: none, a few characters, the default.
Janelas == {0, 3, JANELA_PADRAO}

Chamada(fn, texto, pos_inicio, pos_fim, janela, nome, lexico_vazio, usar) ==
    [fn |-> fn, texto |-> texto, pos_inicio |-> pos_inicio, pos_fim |-> pos_fim,
     janela |-> janela, nome |-> nome, lexico_vazio |-> lexico_vazio,
     usar_contexto |-> usar]

\* tem_contexto_publico(texto, pos_inicio, pos_fim, janela), offsets in and
\* around the text, in either order.
ChamadasTemContexto ==
    {Chamada("tem_contexto_publico", t, a, b, j, << >>, FALSE, TRUE) :
        t \in {TXT_RUA, TXT_JOAO},
        a \in (0 - Fora)..(Len(TXT_RUA) + Fora),
        b \in (0 - Fora)..(Len(TXT_RUA) + Fora),
        j \in Janelas}

\* The names a text may be asked about: its spans of whole tokens, and a
\* name that may not occur in it.
NomesDe(t) ==
    {PySlice(t, sp.start_char, sp.end_char) : sp \in CandidateSpans(t)}
      \cup {STR_PEDRO}

\* extrair_contexto_nome(texto, nome), with the trigger words loaded or with
\* PALAVRAS_GATILHO_PUBLICO_NORMALIZED empty.
ChamadasExtrairContexto ==
    UNION {{Chamada("extrair_contexto_nome", t, 0, 0, 0, nome, vazio, TRUE) :
               nome \in NomesDe(t), vazio \in BOOLEAN} :
           t \in Textos}

\* detectar_numeros_extenso(texto)
ChamadasDetectar ==
    {Chamada("detectar_numeros_extenso", t, 0, 0, 0, << >>, FALSE, TRUE) :
        t \in TextosExtenso \cup {TXT_EXTENSO, TXT_CPF}}

\* PIIDetector().predict(text, usar_contexto)
ChamadasPredict ==
    {Chamada("predict", t, 0, 0, 0, << >>, FALSE, usar) :
        t \in TextosExtenso \cup {TXT_EXTENSO, TXT_CPF}, usar \in BOOLEAN}

FnInit ==
    /\ chamada \in ChamadasTemContexto \cup ChamadasExtrairContexto
                    \cup ChamadasDetectar \cup ChamadasPredict
    /\ retorno = << >>
    /\ lexicon = (IF chamada.lexico_vazio THEN {}
                  ELSE PALAVRAS_GATILHO_PUBLICO_NORMALIZED)
    /\ is_trained = FALSE
    /\ SemDocumento
    /\ SemApp
    /\ SemBatch
    /\ SemGerador

\* What a call that raised nothing returned; contexto is the window the
\* function looked at.
Retorno(valor, contexto) ==
    <<[erro |-> "", valor |-> valor, contexto |-> contexto]>>

ChamaTemContextoPublico ==
    /\ chamada.fn = "tem_contexto_publico"
    /\ retorno = << >>
    /\ retorno' = Retorno(
          tem_contexto_publico(chamada.texto, chamada.pos_inicio,
                               chamada.pos_fim, chamada.janela),
          LowerStr(Contexto(chamada.texto, chamada.pos_inicio,
                            chamada.pos_fim, chamada.janela)))
    /\ UNCHANGED <<chamada, lexicon, detectorVars, appVars, batchVars, concVars, genVars>>

\* A faulty extrair_contexto_nome that takes the words it finds out of the
\* module global.
ChamaExtrairContextoNomeConsome ==
    /\ chamada.fn = "extrair_contexto_nome"
    /\ retorno = << >>
    /\ retorno' = Retorno(
          ExtrairContextoNome(
              PorInicial(lexicon), chamada.texto, chamada.nome,
              OccurrencesIgnoreCase(chamada.nome, chamada.texto)),
          << >>)
    /\ lexicon' = lexicon \ retorno'[1].valor.palavras_gatilho_encontradas
    /\ UNCHANGED <<chamada, detectorVars, appVars, batchVars, concVars, genVars>>

\* extrair_contexto_nome reads the module global and leaves it as it is.
ChamaExtrairContextoNome ==
    /\ chamada.fn = "extrair_contexto_nome"
    /\ retorno = << >>
    /\ retorno' = Retorno(
          ExtrairContextoNome(
              PorInicial(lexicon), chamada.texto, chamada.nome,
              OccurrencesIgnoreCase(chamada.nome, chamada.texto)),
          << >>)
    /\ UNCHANGED <<chamada, lexicon, detectorVars, appVars, batchVars, concVars, genVars>>

ChamaDetectarNumerosExtenso ==
    /\ chamada.fn = "detectar_numeros_extenso"
    /\ retorno = << >>
    /\ retorno' = Retorno(detectar_numeros_extenso(chamada.texto), << >>)
    /\ UNCHANGED <<chamada, lexicon, detectorVars, appVars, batchVars, concVars, genVars>>

\* predict of a detector that was never trained: the recognizer is not run.
ChamaPredict ==
    /\ chamada.fn = "predict"
    /\ retorno = << >>
    /\ retorno' = Retorno(
          predict(chamada.texto, chamada.usar_contexto, is_trained, << >>),
          << >>)
    /\ UNCHANGED <<chamada, lexicon, detectorVars, appVars, batchVars, concVars, genVars>>

FnNext ==
    \/ ChamaTemContextoPublico
    \/ ChamaExtrairContextoNome
    \/ ChamaDetectarNumerosExtenso
    \/ ChamaPredict

SpecFn == FnInit /\ [][FnNext]_vars


(***************************************************************************)
(* The application of src/project/front_app.py.  A DataFrame is its column *)
(* names and its rows, a row the cells under those columns; a cell read     *)
(* from the CSV is a text.  The detector of the application is loaded from  *)
(* disk when the application is constructed.                                *)
(***************************************************************************)
\* Bound of the tables: rows per CSV.
MaxRows == 2

\* Bound of a session: CSV files uploaded.
MaxUploads == 1

\* "original", a cell of a column the CSV brings along
STR_ORIGINAL ==
    <<111,114,105,103,105,110,97,108>>

\* "12345678900"
TXT_DIGITOS ==
    <<49,50,51,52,53,54,55,56,57,48,48>>

\* The texts of the column to classify.
TextosCsv == {TXT_JOAO, TXT_DIGITOS}

\* Sequences of at most n texts.
RECURSIVE TextSeqs(_)
TextSeqs(n) ==
    IF n = 0 THEN {<< >>}
    ELSE TextSeqs(n - 1)
           \cup {Append(ts, t) : ts \in {x \in TextSeqs(n - 1) : Len(x) = n - 1},
                                 t \in TextosCsv}

\* pd.read_csv: a table with the text column alone, or with a column named
\* like one of the result columns after it.
Csvs ==
    {[columns |-> <<"texto">>,
      rows |-> [i \in 1..Len(ts) |-> <<ts[i]>>]] : ts \in TextSeqs(MaxRows)}
    \cup
    {[columns |-> <<"texto", "intent">>,
      rows |-> [i \in 1..Len(ts) |-> <<ts[i], STR_ORIGINAL>>]] :
        ts \in TextSeqs(MaxRows)}

\* A faulty start that opens the upload although the model did not load.
AppInitUploadOpen ==
    /\ is_detector_ready \in BOOLEAN
    /\ is_trained = is_detector_ready
    /\ notifications = (IF is_detector_ready THEN "success" ELSE "error")
    /\ df_original = << >>
    /\ column = << >>
    /\ df_result = << >>
    /\ table_original = DataFrameVazio
    /\ table_result = DataFrameVazio
    /\ pipeline = {}
    /\ uploads = 0
    /\ csv_upload_disabled = FALSE
    /\ process_button_disabled = TRUE
    /\ download_button_visible = FALSE
    /\ SemDocumento
    /\ SemChamada
    /\ SemBatch
    /\ SemGerador

\* PIIDetectorApp.__init__: the widgets, all disabled and the download button
\* hidden, then _initialize_detector, which loads the model and enables the
\* upload or, when MODEL_PATH is missing or load raises, reports the error
\* and leaves the application without a detector.
AppInit ==
    /\ is_detector_ready \in BOOLEAN
    /\ is_trained = is_detector_ready
    /\ notifications = (IF is_detector_ready THEN "success" ELSE "error")
    /\ df_original = << >>
    /\ column = << >>
    /\ df_result = << >>
    /\ table_original = DataFrameVazio
    /\ table_result = DataFrameVazio
    /\ pipeline = {}
    /\ uploads = 0
    /\ csv_upload_disabled = ~is_detector_ready
    /\ process_button_disabled = TRUE
    /\ download_button_visible = FALSE
    /\ SemDocumento
    /\ SemChamada
    /\ SemBatch
    /\ SemGerador

\* The offset of a column name in df.columns, 0 when it is no column.
ColumnIndex(df, name) ==
    IF \E c \in 1..Len(df.columns) : df.columns[c] = name
    THEN CHOOSE c \in 1..Len(df.columns) : df.columns[c] = name
    ELSE 0

\* df[name] = values: the column is replaced when the table has one of that
\* name and appended otherwise.
SetColumn(df, name, values) ==
    IF ColumnIndex(df, name) > 0
    THEN [columns |-> df.columns,
          rows |-> [i \in 1..Len(df.rows) |->
                      [df.rows[i] EXCEPT ![ColumnIndex(df, name)] = values[i]]]]
    ELSE [columns |-> Append(df.columns, name),
          rows |-> [i \in 1..Len(df.rows) |-> Append(df.rows[i], values[i])]]

\* What the selector holds after its options were replaced: the value it
\* had, when it had none yet or the value is among the new options, or the
\* first option, which the widget takes when its value is no option.
SelectorValues(value, options) ==
    {v \in {value} : v = << >> \/ \E c \in 1..Len(options) : options[c] = v[1]}
      \cup {<<options[1]>>}

\* _on_csv_upload, which runs when the user gives the enabled upload widget a
\* file.  Either pd.read_csv reads it: the selector offers its columns and
\* the preview shows its first rows; a new value of the selector runs
\* _on_column_select, which enables the button.  Or pd.read_csv raises (an
\* empty file, bytes that are no UTF-8) before df_original is assigned: the
\* except clause notifies the error and nothing else changes.
OnCsvUpload ==
    /\ ~csv_upload_disabled
    /\ uploads < MaxUploads
    /\ uploads' = uploads + 1
    /\ \/ /\ \E csv \in Csvs :
                /\ df_original' = <<csv>>
                /\ table_original' = csv
                /\ column' \in SelectorValues(column, csv.columns)
          /\ process_button_disabled' =
                (IF column' # column THEN FALSE ELSE process_button_disabled)
          /\ notifications' = "success"
       \/ /\ notifications' = "error"
          /\ UNCHANGED <<df_original, table_original, column,
                         process_button_disabled>>
    /\ UNCHANGED <<is_detector_ready, df_result, table_result, pipeline,
                   csv_upload_disabled, download_button_visible,
                   detectorVars, fnVars, batchVars, concVars, genVars>>

\* The user picks another column in the selector, which _on_csv_upload
\* enabled: _on_column_select enables the button.
OnColumnSelect ==
    /\ df_original # << >>
    /\ \E c \in 1..Len(df_original[1].columns) :
          /\ <<df_original[1].columns[c]>> # column
          /\ column' = <<df_original[1].columns[c]>>
    /\ process_button_disabled' = FALSE
    /\ UNCHANGED <<is_detector_ready, df_original, df_result, table_original,
                   table_result, notifications, pipeline, uploads,
                   csv_upload_disabled, download_button_visible,
                   detectorVars, fnVars, batchVars, concVars, genVars>>

\* The texts of the selected column, row by row: str(row[column]).
ColumnTexts(df, name) ==
    [i \in 1..Len(df.rows) |-> df.rows[i][ColumnIndex(df, name)]]

\* What self.detector.predict(text), usar_contexto at its default, may do
\* with a text: the pipeline raises, or it yields entities and predict
\* returns its result.
Outcomes(t) ==
    {[texto |-> t, raises |-> FALSE, ents |-> ents,
      result |-> predict(t, TRUE, is_trained, ents)] : ents \in Recognizer(t)}
      \cup {[texto |-> t, raises |-> TRUE, ents |-> << >>, result |-> << >>]}

\* One outcome for each text of a set.
RECURSIVE OutcomesOf(_)
OutcomesOf(texts) ==
    IF texts = {} THEN {{}}
    ELSE {{o} \cup rest :
            o \in Outcomes(CHOOSE t \in texts : TRUE),
            rest \in OutcomesOf(texts \ {CHOOSE t \in texts : TRUE})}

\* The texts of a sequence the pipeline was not given before.
NewTexts(texts, known) ==
    {texts[i] : i \in 1..Len(texts)} \ {o.texto : o \in known}

Outcome(known, t) == CHOOSE o \in known : o.texto = t

\* The first row at which predict raises, 0 when it raises at none.
FirstFailure(texts, known) ==
    IF \E i \in 1..Len(texts) : Outcome(known, texts[i]).raises
    THEN SetMin({i \in 1..Len(texts) : Outcome(known, texts[i]).raises})
    ELSE 0

\* self.detector.predict(text) for the first n rows of the loop.
RowResults(texts, known, n) ==
    [i \in 1..n |-> Outcome(known, texts[i]).result]

\* "Adiciona colunas de resultado" and the binary tem_pii column.
WithResultColumns(df, results) ==
    SetColumn(
        SetColumn(
            SetColumn(
                SetColumn(df, "intent",
                          [i \in 1..Len(results) |-> results[i].intent]),
                "confidence",
                [i \in 1..Len(results) |-> results[i].confidence]),
            "num_entities",
            [i \in 1..Len(results) |-> Len(results[i].entities)]),
        "tem_pii",
        [i \in 1..Len(results) |->
            IF results[i].intent = "tem_pii" THEN 1 ELSE 0])

\* The loop of _process_csv over the texts of the column and what follows
\* it; falha is the row at which predict raises.  An exception ends the
\* handler in its except clause: the loop is abandoned, and so are the result
\* columns.  An empty table raises ZeroDivisionError in the statistics, after
\* the columns were added.  Either way the button is enabled again; the
\* download button is shown on success and is never hidden.
ProcessRows(texts, known, falha) ==
    /\ process_button_disabled' = FALSE
    /\ IF falha > 0
       THEN /\ returned' = RowResults(texts, known, falha - 1)
            /\ df_result' = df_original
            /\ notifications' = "error"
            /\ UNCHANGED <<table_result, download_button_visible>>
       ELSE /\ returned' = RowResults(texts, known, Len(texts))
            /\ df_result' = <<WithResultColumns(df_original[1], returned')>>
            /\ IF Len(texts) = 0
               THEN /\ notifications' = "error"
                    /\ UNCHANGED <<table_result, download_button_visible>>
               ELSE /\ notifications' = "success"
                    /\ table_result' = df_result'[1]
                    /\ download_button_visible' = TRUE

\* The three guarded early returns of _process_csv.
EarlyReturn ==
    ~is_detector_ready \/ df_original = << >> \/ column = << >>

\* _process_csv, the handler of the button.  The pipeline is a fixed
\* function of the text: what it does with a text it is given for the first
\* time is settled then.
ProcessCsv ==
    /\ IF EarlyReturn
       THEN /\ notifications' = "error"
            /\ UNCHANGED <<df_result, table_result, returned, pipeline,
                           process_button_disabled, download_button_visible>>
       ELSE \E novo \in OutcomesOf(NewTexts(
                     ColumnTexts(df_original[1], column[1]), pipeline)) :
               /\ pipeline' = pipeline \cup novo
               /\ ProcessRows(
                      ColumnTexts(df_original[1], column[1]), pipeline',
                      FirstFailure(ColumnTexts(df_original[1], column[1]),
                                   pipeline'))
    /\ UNCHANGED <<is_detector_ready, df_original, column, table_original,
                   uploads, csv_upload_disabled, is_trained, text,
                   usar_contexto, doc_known, doc_ents, fnVars, batchVars,
                   concVars, genVars>>

AppNext == OnCsvUpload \/ OnColumnSelect \/ ProcessCsv

SpecApp == AppInit /\ [][AppNext]_vars

(***************************************************************************)
(* The loop of _process_csv, row by row (front_app.py 239-332): what the   *)
(* progress bar shows while a batch is on its way.                         *)
(***************************************************************************)

\* Bounds of the loop: the rows of a short table, and of a long one for
\* which the float of the progress falls below the integer quotient at a
\* row where the bar is updated (row 290 of 500).
MaxTotal == 25

MaxTotalLongo == 500

\* "Atualiza progresso a cada 10 linhas"
PASSO_PROGRESSO == 10

\* A progress that counts the rows of the step to come as done.
ProgressValueAhead(done, total) == ((done + PASSO_PROGRESSO) * 100) \div total

\* int((idx + 1) / total * 100), done = idx + 1 <= total, in the doubles of
\* Python.  The quotient done / total is rounded to 53 bits: with
\* 2^-j <= done / total < 2^(1-j) and r the remainder of done * 2^(52+j) by
\* total, it is rounded down by r / (total * 2^(52+j)) when 2r < total and
\* up otherwise (2r = total does not occur).  The product with 100 is rounded
\* again.  A percentage that is no whole number is far from the next whole
\* number and its float has the same integer part.  A whole percentage m,
\* 2^k <= m < 2^(k+1), is met or, when the quotient was rounded down by
\* more than half the distance from m to the double below it (2^(k-52), or
\* 2^(k-53) for m = 2^k), missed: the product is below m and int gives m - 1.
ProgressValue(done, total) ==
    LET RECURSIVE Exponent(_, _)
        Exponent(x, j) == IF x >= total THEN j ELSE Exponent(2 * x, j + 1)
        RECURSIVE DoubledMod(_, _)
        DoubledMod(x, n) ==
            IF n = 0 THEN x % total ELSE DoubledMod((2 * x) % total, n - 1)
        RECURSIVE Log2(_)
        Log2(m) == IF m < 2 THEN 0 ELSE 1 + Log2(m \div 2)
        RECURSIVE Pow2(_)
        Pow2(n) == IF n = 0 THEN 1 ELSE 2 * Pow2(n - 1)
        m == (done * 100) \div total
        j == Exponent(done, 0)
        r == DoubledMod(done, 52 + j)
        k == Log2(m)
    IN  IF (done * 100) % total # 0 \/ done = 0 THEN m
        ELSE IF r = 0 \/ 2 * r > total THEN m
        ELSE IF (IF m = Pow2(k) THEN 400 ELSE 200) * r > total * Pow2(j + k)
             THEN m - 1
             ELSE m

BatchInit ==
    /\ SemBatch
    /\ SemGerador
    /\ is_trained = FALSE
    /\ SemDocumento
    /\ SemChamada
    /\ SemApp

\* The button is pressed with a detector, a table of total rows and a
\* column: the bar is shown at 0 and the loop begins.  No batch is on its
\* way, since the handler runs to its end before the next event.
BatchStart ==
    /\ IF batch = << >> THEN TRUE ELSE batch[1].estado # "loop"
    /\ \E total \in (0..MaxTotal) \cup {MaxTotalLongo} :
          batch' = <<[total |-> total, done |-> 0, progress |-> 0,
                      estado |-> "loop"]>>
    /\ UNCHANGED <<detectorVars, fnVars, appVars, concVars, genVars>>

\* One turn of the loop: predict classifies the row, or raises and the
\* handler ends in its except clause.  idx is the RangeIndex of read_csv.
BatchRow ==
    /\ batch # << >>
    /\ batch[1].estado = "loop"
    /\ batch[1].done < batch[1].total
    /\ \E raises \in BOOLEAN :
          batch' = IF raises
                   THEN <<[batch[1] EXCEPT !.estado = "error"]>>
                   ELSE <<[batch[1] EXCEPT
                             !.done = @ + 1,
                             !.progress =
                                 IF (batch[1].done + 1) % PASSO_PROGRESSO = 0
                                 THEN ProgressValue(batch[1].done + 1,
                                                    batch[1].total)
                                 ELSE @]>>
    /\ UNCHANGED <<detectorVars, fnVars, appVars, concVars, genVars>>

\* After the loop: the columns and the statistics, whose 100*n_pii/total
\* raises ZeroDivisionError for an empty table.
BatchEnd ==
    /\ batch # << >>
    /\ batch[1].estado = "loop"
    /\ batch[1].done = batch[1].total
    /\ batch' = <<[batch[1] EXCEPT
                     !.estado = IF batch[1].total = 0 THEN "error"
                                ELSE "success"]>>
    /\ UNCHANGED <<detectorVars, fnVars, appVars, concVars, genVars>>

BatchNext == BatchStart \/ BatchRow \/ BatchEnd

SpecBatch == BatchInit /\ [][BatchNext]_vars

(***************************************************************************)
(* predict called from several threads on one detector (detector_nlu.py    *)
(* 680-741).  A call goes through its three steps and its return; the      *)
(* steps of the calls interleave in any order.                             *)
(***************************************************************************)

\* Bound of the threads.
MaxCalls == 2

\* The documents of the calls, each with what self.nlp yields for it.
Documentos ==
    {[text |-> TXT_JOAO, usar_contexto |-> TRUE,
      ents |-> <<[start_char |-> 0, end_char |-> Len(TXT_JOAO),
                  label_ |-> "PESSOA"]>>],
     [text |-> TXT_HOSPITAL, usar_contexto |-> TRUE,
      ents |-> <<[start_char |-> Len(TXT_HOSPITAL) - Len(TXT_JOAO),
                  end_char |-> Len(TXT_HOSPITAL), label_ |-> "PESSOA"]>>],
     [text |-> TXT_EXTENSO, usar_contexto |-> TRUE, ents |-> << >>],
     [text |-> TXT_HOSPITAL_CPF, usar_contexto |-> FALSE, ents |-> << >>]}

\* A call that has not begun: entities = [] is still to come.
NovaChamada(d) ==
    [text |-> d.text, usar_contexto |-> d.usar_contexto, ents |-> d.ents,
     pc |-> "regex", entities |-> << >>, result |-> << >>]

ConcInit ==
    /\ is_trained \in BOOLEAN
    /\ calls \in [1..MaxCalls -> {NovaChamada(d) : d \in Documentos}]
    /\ batch = << >>
    /\ SemGerador
    /\ SemDocumento
    /\ SemChamada
    /\ SemApp

\* A faulty step 1 whose list is a field of the detector: starting a call
\* empties the list the other calls are filling.
StepRegexShared(i) ==
    /\ calls[i].pc = "regex"
    /\ calls' = [j \in 1..MaxCalls |->
                   IF j = i
                   THEN [calls[i] EXCEPT !.pc = "extenso",
                                         !.entities = RegexEntities(calls[i].text)]
                   ELSE [calls[j] EXCEPT !.entities = << >>]]
    /\ UNCHANGED <<detectorVars, fnVars, appVars, batch, genVars>>

\* entities = [] and "1. Regex"
StepRegex(i) ==
    /\ calls[i].pc = "regex"
    /\ calls' = [calls EXCEPT ![i].pc = "extenso",
                              ![i].entities = RegexEntities(calls[i].text)]
    /\ UNCHANGED <<detectorVars, fnVars, appVars, batch, genVars>>

\* "2. Numeros extenso"
StepExtenso(i) ==
    /\ calls[i].pc = "extenso"
    /\ calls' = [calls EXCEPT ![i].pc = "ner",
                              ![i].entities = @ \o ExtensoEntities(calls[i].text)]
    /\ UNCHANGED <<detectorVars, fnVars, appVars, batch, genVars>>

\* "3. NER com filtro de contexto": reads self._is_trained and runs self.nlp.
StepNer(i) ==
    /\ calls[i].pc = "ner"
    /\ calls' = [calls EXCEPT
                   ![i].pc = "return",
                   ![i].entities = WithNames(@, calls[i].text,
                                             calls[i].usar_contexto,
                                             is_trained, calls[i].ents)]
    /\ UNCHANGED <<detectorVars, fnVars, appVars, batch, genVars>>

\* has_pii and the returned dict
StepReturn(i) ==
    /\ calls[i].pc = "return"
    /\ calls' = [calls EXCEPT
                   ![i].pc = "done",
                   ![i].result = <<Classify(calls[i].text, calls[i].entities)>>]
    /\ UNCHANGED <<detectorVars, fnVars, appVars, batch, genVars>>

ConcNext ==
    \E i \in 1..MaxCalls :
        StepRegex(i) \/ StepExtenso(i) \/ StepNer(i) \/ StepReturn(i)

SpecConc == ConcInit /\ [][ConcNext]_vars

(***************************************************************************)
(* TrainingDataGenerator.  The numbers the module random yields are an     *)
(* input: a sequence draws holds the numbers one turn of a loop takes, and *)
(* every call of random.choice, random.randint, random.random and          *)
(* random.choices takes the next of them.  An operator that draws yields,  *)
(* next to its value, the position k of the draw that follows.             *)
(***************************************************************************)
MaxPublic == 1
MaxPii == 6
MaxSeed == 3
PERIODO == 23
LIMITE_EXTENSO == 100
RAZAO_EXTENSO == 5

\* The draw at position k, for a call with n outcomes: an index below n.
\* Past the last number the first is read again.
Draw(draws, k, n) == draws[(k % Len(draws)) + 1] % n

\* random.choice(options), options a sequence
Choice(options, draws, k) == options[Draw(draws, k, Len(options)) + 1]

\* [str(random.randint(0, 9)) for _ in range(n)], from draw k on
RandomDigits(n, draws, k) ==
    [d \in 1..n |-> 48 + Draw(draws, k + d - 1, 10)]

\* str(n) of a natural number
RECURSIVE Decimal(_)
Decimal(n) ==
    IF n < 10 THEN <<48 + n>> ELSE Append(Decimal(n \div 10), 48 + (n % 10))

\* text.find(sub): the first offset where sub lies in text, -1 without one.
find(txt, sub) ==
    IF \E p \in 0..(Len(txt) - Len(sub)) : PySlice(txt, p, p + Len(sub)) = sub
    THEN SetMin({p \in 0..(Len(txt) - Len(sub)) :
                    PySlice(txt, p, p + Len(sub)) = sub})
    ELSE -1

\* text.replace(old, new, 1), old not empty
replace(txt, old, new) ==
    IF find(txt, old) = -1 THEN txt
    ELSE PySlice(txt, 0, find(txt, old)) \o new
            \o PySlice(txt, find(txt, old) + Len(old), Len(txt))

\* fmt.format(*args): every "{}" of fmt takes the next argument.
RECURSIVE format(_, _)
format(fmt, args) ==
    IF fmt = << >> THEN << >>
    ELSE IF Len(fmt) >= 2 /\ fmt[1] = 123 /\ fmt[2] = 125
         THEN Head(args) \o format(SubSeq(fmt, 3, Len(fmt)), Tail(args))
         ELSE <<fmt[1]>> \o format(Tail(fmt), args)

\* The names the generator was built with (first_names, last_names).
first_names ==
    <<<<65,110,97>>,
      <<74,111,227,111>>,
      <<77,97,114,105,97>>>>

last_names ==
    <<<<76,105,109,97>>,
      <<83,105,108,118,97>>>>

\* _generate_pessoa: first and last name, in three cases of ten with a
\* middle name (random.random() < 0.3).  Every generate function yields its
\* value and the number of the draw that follows.
generate_pessoa(draws, k) ==
    IF Draw(draws, k + 2, 10) < 3
    THEN [value |-> Choice(first_names, draws, k) \o <<32>>
                      \o Choice(first_names, draws, k + 3) \o <<32>>
                      \o Choice(last_names, draws, k + 1),
          k |-> k + 4]
    ELSE [value |-> Choice(first_names, draws, k) \o <<32>>
                      \o Choice(last_names, draws, k + 1),
          k |-> k + 3]

\* random.choice(formats).format(*digits): the n digits are drawn first,
\* the format after them, and each "{}" takes one digit.
Numbered(formats, n, draws, k) ==
    [value |-> format(Choice(formats, draws, k + n),
                      [d \in 1..n |-> <<RandomDigits(n, draws, k)[d]>>]),
     k |-> k + n + 1]

generate_cpf(draws, k) ==
    Numbered(
      <<<<123,125,123,125,123,125,46,123,125,123,125,123,125,46,123,125,123,125,123,125,45,123,125,123,125>>,
      <<123,125,123,125,123,125,123,125,123,125,123,125,123,125,123,125,123,125,123,125,123,125>>>>,
      11, draws, k)

generate_rg(draws, k) ==
    Numbered(
      <<<<123,125,123,125,46,123,125,123,125,123,125,46,123,125,123,125,123,125,45,123,125>>,
      <<123,125,123,125,123,125,123,125,123,125,123,125,123,125,123,125,123,125>>,
      <<123,125,123,125,46,123,125,123,125,123,125,46,123,125,123,125,123,125>>>>,
      9, draws, k)

generate_cin(draws, k) ==
    Numbered(
      <<<<123,125,123,125,123,125,123,125,32,123,125,123,125,123,125,123,125,32,123,125,123,125,123,125,123,125>>,
      <<123,125,123,125,123,125,123,125,123,125,123,125,123,125,123,125,123,125,123,125,123,125,123,125>>>>,
      12, draws, k)

generate_telefone(draws, k) ==
    Numbered(
      <<<<40,123,125,123,125,41,32,123,125,123,125,123,125,123,125,45,123,125,123,125,123,125,123,125>>,
      <<40,123,125,123,125,41,32,123,125,123,125,123,125,123,125,123,125,123,125,123,125,123,125>>,
      <<123,125,123,125,123,125,123,125,123,125,123,125,123,125,123,125,123,125,123,125>>>>,
      10, draws, k)

\* Two letters of A..Z and six digits.
generate_passaporte(draws, k) ==
    [value |-> <<65 + Draw(draws, k, 26),
                 65 + Draw(draws, k + 1, 26)>>
                 \o RandomDigits(6, draws, k + 2),
     k |-> k + 8]

\* f"{first}{random.randint(1, 999)}@{random.choice(domains)}"
generate_email(draws, k) ==
    [value |-> LowerStr(Choice(first_names, draws, k))
                 \o Decimal(1 + Draw(draws, k + 1, 999)) \o <<64>>
                 \o Choice(
      <<<<103,109,97,105,108,46,99,111,109>>,
        <<111,117,116,108,111,111,107,46,99,111,109>>,
        <<121,97,104,111,111,46,99,111,109,46,98,114>>,
        <<104,111,116,109,97,105,108,46,99,111,109>>>>,
                      draws, k + 2),
     k |-> k + 3]

\* The words of mapa, by digit.
MAPA_EXTENSO ==
    <<<<122,101,114,111>>,
      <<117,109>>,
      <<100,111,105,115>>,
      <<116,114,234,115>>,
      <<113,117,97,116,114,111>>,
      <<99,105,110,99,111>>,
      <<115,101,105,115>>,
      <<115,101,116,101>>,
      <<111,105,116,111>>,
      <<110,111,118,101>>>>

\* _numero_para_extenso(numero), numero a sequence of digit characters
RECURSIVE numero_para_extenso(_)
numero_para_extenso(numero) ==
    IF numero = << >> THEN << >>
    ELSE IF Len(numero) = 1 THEN MAPA_EXTENSO[numero[1] - 47]
    ELSE MAPA_EXTENSO[numero[1] - 47] \o <<32>>
            \o numero_para_extenso(Tail(numero))

\* PII_TEMPLATES_WITH_ENTITIES, in the order of the list:
\*    1  {pessoa} solicitou acesso à informação
\*    2  Requerente: {pessoa}
\*    3  Cidadão {pessoa} requisitou documentos
\*    4  Titular dos dados: {pessoa}
\*    5  CPF: {cpf}
\*    6  RG: {rg}
\*    7  CIN: {cin}
\*    8  Passaporte: {passaporte}
\*    9  Email: {email}
\*   10  Telefone: {telefone}
\*   11  {pessoa}, CPF {cpf}
\*   12  {pessoa} - RG {rg}
PII_TEMPLATES_WITH_ENTITIES ==
    <<
      [template |-> <<123,112,101,115,115,111,97,125,32,115,111,108,105,99,105,116,111,117,32,97,99,101,115,115,111,32,224,32,105,110,102,111,114,109,97,231,227,111>>,
       entities |-> <<[entity |-> "PESSOA", role |-> "solicitante"]>>],
      [template |-> <<82,101,113,117,101,114,101,110,116,101,58,32,123,112,101,115,115,111,97,125>>,
       entities |-> <<[entity |-> "PESSOA", role |-> "requerente"]>>],
      [template |-> <<67,105,100,97,100,227,111,32,123,112,101,115,115,111,97,125,32,114,101,113,117,105,115,105,116,111,117,32,100,111,99,117,109,101,110,116,111,115>>,
       entities |-> <<[entity |-> "PESSOA", role |-> "cidadao"]>>],
      [template |-> <<84,105,116,117,108,97,114,32,100,111,115,32,100,97,100,111,115,58,32,123,112,101,115,115,111,97,125>>,
       entities |-> <<[entity |-> "PESSOA", role |-> "titular"]>>],
      [template |-> <<67,80,70,58,32,123,99,112,102,125>>,
       entities |-> <<[entity |-> "CPF", role |-> "documento"]>>],
      [template |-> <<82,71,58,32,123,114,103,125>>,
       entities |-> <<[entity |-> "RG", role |-> "documento"]>>],
      [template |-> <<67,73,78,58,32,123,99,105,110,125>>,
       entities |-> <<[entity |-> "CIN", role |-> "documento"]>>],
      [template |-> <<80,97,115,115,97,112,111,114,116,101,58,32,123,112,97,115,115,97,112,111,114,116,101,125>>,
       entities |-> <<[entity |-> "PASSAPORTE", role |-> "documento"]>>],
      [template |-> <<69,109,97,105,108,58,32,123,101,109,97,105,108,125>>,
       entities |-> <<[entity |-> "EMAIL", role |-> "contato"]>>],
      [template |-> <<84,101,108,101,102,111,110,101,58,32,123,116,101,108,101,102,111,110,101,125>>,
       entities |-> <<[entity |-> "TELEFONE", role |-> "contato"]>>],
      [template |-> <<123,112,101,115,115,111,97,125,44,32,67,80,70,32,123,99,112,102,125>>,
       entities |-> <<[entity |-> "PESSOA", role |-> "solicitante"],
                      [entity |-> "CPF", role |-> "documento"]>>],
      [template |-> <<123,112,101,115,115,111,97,125,32,45,32,82,71,32,123,114,103,125>>,
       entities |-> <<[entity |-> "PESSOA", role |-> "solicitante"],
                      [entity |-> "RG", role |-> "documento"]>>]
    >>

\* The value of an entity type and the placeholder that stands for it.
GenerateValue(entity_type, draws, k) ==
    CASE entity_type = "PESSOA" -> generate_pessoa(draws, k)
      [] entity_type = "CPF" -> generate_cpf(draws, k)
      [] entity_type = "RG" -> generate_rg(draws, k)
      [] entity_type = "CIN" -> generate_cin(draws, k)
      [] entity_type = "PASSAPORTE" -> generate_passaporte(draws, k)
      [] entity_type = "EMAIL" -> generate_email(draws, k)
      [] entity_type = "TELEFONE" -> generate_telefone(draws, k)

Placeholder(entity_type) ==
    CASE entity_type = "PESSOA" -> <<123,112,101,115,115,111,97,125>>
      [] entity_type = "CPF" -> <<123,99,112,102,125>>
      [] entity_type = "RG" -> <<123,114,103,125>>
      [] entity_type = "CIN" -> <<123,99,105,110,125>>
      [] entity_type = "PASSAPORTE" -> <<123,112,97,115,115,97,112,111,114,116,101,125>>
      [] entity_type = "EMAIL" -> <<123,101,109,97,105,108,125>>
      [] entity_type = "TELEFONE" -> <<123,116,101,108,101,102,111,110,101,125>>

\* A variant that looks the placeholder up in the template as it was written.
PlaceholderStartInTemplate(template, txt, placeholder) ==
    find(template, placeholder)

\* start = text.find(placeholder), in the text filled so far
PlaceholderStart(template, txt, placeholder) == find(txt, placeholder)

\* The loop over entity_specs: the placeholder of each entity is replaced by
\* a generated value and the entity is recorded at the offset it was found.
\* Yields the example and the position of the next draw.
RECURSIVE FillTemplate(_, _, _, _, _, _)
FillTemplate(template, txt, entities, entity_specs, draws, k) ==
    IF entity_specs = << >>
    THEN [example |-> [text |-> txt, intent |-> "tem_pii",
                       entities |-> entities],
          k |-> k]
    ELSE IF PlaceholderStart(template, txt,
                             Placeholder(Head(entity_specs).entity)) = -1
    THEN FillTemplate(template, txt, entities, Tail(entity_specs), draws,
                      GenerateValue(Head(entity_specs).entity, draws, k).k)
    ELSE FillTemplate(
            template,
            replace(txt, Placeholder(Head(entity_specs).entity),
                    GenerateValue(Head(entity_specs).entity, draws, k).value),
            Append(entities,
                   [start |-> PlaceholderStart(
                                 template, txt,
                                 Placeholder(Head(entity_specs).entity)),
                    end |-> PlaceholderStart(
                                 template, txt,
                                 Placeholder(Head(entity_specs).entity))
                            + Len(GenerateValue(Head(entity_specs).entity,
                                                draws, k).value),
                    value |-> GenerateValue(Head(entity_specs).entity,
                                            draws, k).value,
                    entity |-> Head(entity_specs).entity,
                    role |-> Head(entity_specs).role]),
            Tail(entity_specs), draws,
            GenerateValue(Head(entity_specs).entity, draws, k).k)

\* One turn of the loop "PII": a template is drawn and filled.  draws holds
\* the numbers this turn takes.
PiiExample(draws) ==
    FillTemplate(Choice(PII_TEMPLATES_WITH_ENTITIES, draws, 0).template,
                 Choice(PII_TEMPLATES_WITH_ENTITIES, draws, 0).template,
                 << >>,
                 Choice(PII_TEMPLATES_WITH_ENTITIES, draws, 0).entities,
                 draws, 1).example

\* One turn of the loop "Publicos": the text gerar_exemplo_publico returned,
\* no entity.  The text is an input: what PublicDataGenerator draws to make
\* it is no part of draws.
PublicExample(txt) == [text |-> txt, intent |-> "publico", entities |-> << >>]

NUM_DIGITOS == <<9, 10, 11>>

TEMPLATES_EXTENSO ==
    <<<<67,80,70,58,32,123,118,125>>,
      <<82,71,32,123,118,125>>,
      <<68,111,99,117,109,101,110,116,111,32,123,118,125>>>>

\* The label of a number in words, by the number of its digits.
ExtensoLabel(num_digitos) ==
    IF num_digitos = 11 THEN "CPF"
    ELSE IF num_digitos = 9 THEN "RG" ELSE "CIN"

\* The example of a number in words in a text.
ExtensoExampleOf(txt, valor_extenso, num_digitos) ==
    [text |-> txt, intent |-> "tem_pii",
     entities |->
        <<[start |-> find(txt, valor_extenso),
           end |-> find(txt, valor_extenso) + Len(valor_extenso),
           value |-> valor_extenso,
           entity |-> ExtensoLabel(num_digitos),
           role |-> "documento_extenso"]>>]

\* One turn of the loop "Extenso": the number of digits is drawn, then the
\* digits, then the template, whose "{v}" takes the words.
ExtensoExample(draws) ==
    ExtensoExampleOf(
        replace(Choice(TEMPLATES_EXTENSO, draws,
                       Choice(NUM_DIGITOS, draws, 0) + 1),
                <<123,118,125>>,
                numero_para_extenso(
                    RandomDigits(Choice(NUM_DIGITOS, draws, 0), draws, 1))),
        numero_para_extenso(
            RandomDigits(Choice(NUM_DIGITOS, draws, 0), draws, 1)),
        Choice(NUM_DIGITOS, draws, 0))

\* n_extenso = min(100, n_pii // 5), no example without incluir_extenso
NExtenso(n_pii, incluir_extenso) ==
    IF incluir_extenso
    THEN Min(LIMITE_EXTENSO, n_pii \div RAZAO_EXTENSO) ELSE 0

\* random.shuffle(x) of the library: for i from the last index down to the
\* second, x[i] changes places with x[j], j drawn among the first i.  Here i
\* counts from 1 and the turns hi, hi - 1, ..., lo are taken as the upper
\* half of them, then the lower; turn i takes draw k + (hi - i).  No turn is
\* taken at an index the list does not have.
RECURSIVE shuffle(_, _, _, _, _)
shuffle(x, hi, lo, draws, k) ==
    IF hi < lo \/ hi > Len(x) THEN x
    ELSE IF hi = lo
    THEN [x EXCEPT ![hi] = x[Draw(draws, k, hi) + 1],
                   ![Draw(draws, k, hi) + 1] = x[hi]]
    ELSE shuffle(shuffle(x, hi, ((hi + lo) \div 2) + 1, draws, k),
                 (hi + lo) \div 2, lo, draws,
                 k + (hi - ((hi + lo) \div 2)))

\* generate_training_data(n_public, n_pii, incluir_extenso): the examples of
\* the three loops, shuffled.  textos holds what gerar_exemplo_publico
\* returned, call by call; draws[i] the numbers the i-th turn of the loops
\* "PII" and "Extenso" took from random, and the one after them those the
\* shuffle took.
generate_training_data(n_public, n_pii, incluir_extenso, textos, draws) ==
    LET n_extenso == NExtenso(n_pii, incluir_extenso)
        examples ==
            [i \in 1..n_public |-> PublicExample(textos[i])]
            \o [i \in 1..n_pii |-> PiiExample(draws[i])]
            \o [i \in 1..n_extenso |-> ExtensoExample(draws[n_pii + i])]
    IN  shuffle(examples, Len(examples), 2,
                draws[n_pii + n_extenso + 1], 0)

\* The numbers random yields, as the calls of a run find them: those of the
\* i-th turn are draws[i], PERIODO of them, unlike from turn to turn and from
\* seed to seed.
Draws(seed, turns) ==
    [i \in 1..turns |->
        [p \in 1..PERIODO |->
            ((seed * 6007 + i * PERIODO + p) % 46337)
            * ((seed * 6007 + i * PERIODO + p) % 46337) % 46337]]

\* A call of generate_training_data that has not run yet.  The numbers of
\* PII examples are the small ones and those around the limit of the
\* examples in words.  The public texts are two that
\* gerar_exemplo_publico returns: a protocol number and a street.
GenInit ==
    /\ \E n_public \in 0..MaxPublic,
          n_pii \in (0..MaxPii)
                       \cup {LIMITE_EXTENSO * RAZAO_EXTENSO - 1,
                             LIMITE_EXTENSO * RAZAO_EXTENSO + MaxPii},
          incluir_extenso \in BOOLEAN, seed \in 0..MaxSeed :
          \E textos \in [1..n_public ->
                            {<<80,114,111,116,111,99,111,108,111,32,48,48,48,49,51,46,48,48,48,48,49,54,47,50,48,50,53,45,49,57>>,
                             TXT_RUA}] :
             gen = <<[n_public |-> n_public, n_pii |-> n_pii,
                      incluir_extenso |-> incluir_extenso,
                      textos |-> textos, seed |-> seed,
                      returned |-> FALSE, examples |-> << >>]>>
    /\ is_trained = FALSE
    /\ SemBatch
    /\ SemDocumento
    /\ SemChamada
    /\ SemApp

\* generate_training_data runs and returns its examples.
GenerateTrainingData ==
    /\ ~gen[1].returned
    /\ gen' = <<[gen[1] EXCEPT
                   !.returned = TRUE,
                   !.examples = generate_training_data(
                                    gen[1].n_public, gen[1].n_pii,
                                    gen[1].incluir_extenso, gen[1].textos,
                                    Draws(gen[1].seed,
                                          gen[1].n_pii
                                          + NExtenso(gen[1].n_pii,
                                                     gen[1].incluir_extenso)
                                          + 1))]>>
    /\ UNCHANGED <<detectorVars, fnVars, appVars, batchVars, concVars>>

SpecGen == GenInit /\ [][GenerateTrainingData]_vars

(***************************************************************************)
(* The engine as a whole: one detector with a document, one call of a      *)
(* function of the module that reads PALAVRAS_GATILHO_PUBLICO_NORMALIZED,   *)
(* and one generate_training_data, in any order.  The module global is the *)
(* set lines 91-95 built at import.                                        *)
(***************************************************************************)
EngineInit ==
    /\ is_trained = FALSE
    /\ text \in {TXT_RUA, TXT_SOLICITOU}
    /\ usar_contexto \in BOOLEAN
    /\ doc_known = FALSE
    /\ doc_ents = << >>
    /\ returned = << >>
    /\ chamada \in
          {c \in ChamadasTemContexto :
              c.texto = TXT_RUA /\ c.pos_inicio = 4 /\ c.pos_fim = Len(TXT_RUA)}
          \cup {c \in ChamadasExtrairContexto :
                   /\ ~c.lexico_vazio
                   /\ c.texto = TXT_RUA
                   /\ c.nome \in {TXT_MARIA, STR_PEDRO}}
          \cup {c \in ChamadasDetectar : c.texto = TXT_EXTENSO}
    /\ retorno = << >>
    /\ lexicon = PALAVRAS_GATILHO_PUBLICO_NORMALIZED
    /\ \E n_pii \in {1, RAZAO_EXTENSO} :
          gen = <<[n_public |-> 1, n_pii |-> n_pii, incluir_extenso |-> TRUE,
                   textos |-> <<TXT_RUA>>, seed |-> 0,
                   returned |-> FALSE, examples |-> << >>]>>
    /\ SemApp
    /\ SemBatch

SpecEngine ==
    EngineInit /\ [][\/ Train
                     \/ Load
                     \/ Save
                     \/ Predict
                     \/ ChamaTemContextoPublico
                     \/ ChamaExtrairContextoNome
                     \/ ChamaDetectarNumerosExtenso
                     \/ GenerateTrainingData]_vars

(***************************************************************************)
(* Properties.  A result is any value predict returned for the document;   *)
(* a name is an entity of the recognizer labelled PESSOA.                  *)
(***************************************************************************)
Results == {returned[i] : i \in 1..Len(returned)}

PersonSpans == {ent \in {doc_ents[i] : i \in 1..Len(doc_ents)} : ent.label_ = "PESSOA"}

\* Names of at least two tokens.
FullNameSpans == {ent \in PersonSpans : Len(Split(EntText(text, ent))) >= 2}

\* The result reports the name at the offsets of ent.
Reported(r, ent) ==
    \E k \in 1..Len(r.entities) :
        /\ r.entities[k].entity = "PESSOA"
        /\ r.entities[k].start = ent.start_char
        /\ r.entities[k].end = ent.end_char

\* The lowercased text within raio characters of the span.
WindowAround(ent, raio) ==
    LowerStr(PySlice(text, Max(0, ent.start_char - raio),
                     Min(Len(text), ent.end_char + raio)))

\* Individualizing verbs and role nouns of the training templates.
IndividualizingVerbs == {STR_SOLICITOU, STR_REQUISITOU}
IndividualizingRoles == {STR_REQUERENTE, STR_CIDADAO, STR_TITULAR}

NearVerb(ent) ==
    \E termo \in IndividualizingVerbs : Contains(termo, WindowAround(ent, 100))

NearRole(ent) ==
    \E termo \in IndividualizingVerbs \cup IndividualizingRoles :
        Contains(termo, WindowAround(ent, 100))

\* A trigger word within 30 characters of the span: the narrow window.
NearExclusion(ent) ==
    tem_contexto_publico(text, ent.start_char, ent.end_char, 30)

\* A trigger word within the window of the span that the detector uses.
InPublicContext(ent) ==
    tem_contexto_publico(text, ent.start_char, ent.end_char, JANELA_CONTEXTO)

\* The name of the span occurs once in the text.
OccursOnce(ent) ==
    Cardinality(OccurrencesIgnoreCase(EntText(text, ent), text)) = 1

\* The offsets of the entities in a list of entities.
Offsets(found) == {[start |-> found[n].start, end |-> found[n].end] : n \in 1..Len(found)}

\* The spans the regex patterns match in a text with these word boundaries.
PatternSpans(t, boundaries) ==
    UNION {Offsets(FindIter(regex_patterns[p].alts, t, boundaries)) :
              p \in 1..Len(regex_patterns)}

\* The spans the regex patterns and the number-word extractor match.
StructuredSpans ==
    PatternSpans(text, Boundaries(text)) \cup Offsets(detectar_numeros_extenso(text))

\* C1: with the context filter on, a name whose surroundings hold both a
\* trigger word of public context (within the narrow window) and an
\* individualizing verb or role noun is never reported as personal data.
C1_ExclusionVeto ==
    \A r \in Results : \A ent \in PersonSpans :
        (usar_contexto /\ NearExclusion(ent) /\ NearRole(ent)) => ~Reported(r, ent)

\* C2: every span a document, email or phone pattern matches, and every span
\* of the number-word extractor, is in the entity list of every result as an
\* entity other than a name, whatever the text around it, the recognizer's
\* output, the training state and usar_contexto.
C2_StructuredAlwaysReported ==
    returned # << >> =>
    \A sp \in StructuredSpans : \A r \in Results :
        \E k \in 1..Len(r.entities) :
            /\ r.entities[k].start = sp.start
            /\ r.entities[k].end = sp.end
            /\ r.entities[k].entity # "PESSOA"

\* A trained detector with the filter on returned the CPF of
\* "Hospital CPF 12345678900", a text that holds the trigger word "hospital".
C2_Witness ==
    /\ text = TXT_HOSPITAL_CPF /\ is_trained /\ usar_contexto
    /\ returned # << >>
    /\ \E k \in 1..Len(returned[1].entities) :
          /\ returned[1].entities[k].entity = "CPF"
          /\ returned[1].entities[k].start = 13
          /\ returned[1].entities[k].end = 24

\* C3: in every result the intent is "tem_pii" if and only if the entity list
\* is not empty, and "publico" otherwise.
C3_IntentIffEntities ==
    \A r \in Results :
        /\ r.intent = "tem_pii" <=> Len(r.entities) >= 1
        /\ r.intent = "publico" <=> Len(r.entities) = 0

\* "CPF: 123.456.789-00" got a result with exactly one entity and "tem_pii".
C3_Witness ==
    /\ text = TXT_CPF
    /\ \E r \in Results : Len(r.entities) = 1 /\ r.intent = "tem_pii"

\* C4: in "Requerente: Maria Santos" and "Cidadão Pedro Oliveira", when the
\* recognizer proposes the name, the result has intent "tem_pii" and reports
\* the name.
C4_RoleNounIsPersonal ==
    \A r \in Results : \A ent \in PersonSpans :
        (\/ text = TXT_REQUERENTE /\ EntText(text, ent) = TXT_MARIA
         \/ text = TXT_CIDADAO /\ EntText(text, ent) = STR_PEDRO)
        => (r.intent = "tem_pii" /\ Reported(r, ent))

\* C5: a name with no trigger word, no individualizing verb or role noun and
\* no identifier in the text is not reported, and a text that is only such a
\* name is classified "publico".
C5_BareNameIsPublic ==
    \A r \in Results : \A ent \in PersonSpans :
        (/\ ~InPublicContext(ent)
         /\ ~NearRole(ent)
         /\ StructuredSpans = {})
        => (/\ ~Reported(r, ent)
            /\ EntText(text, ent) = text => r.intent = "publico")

\* C6: in a text with no structured identifier in which every name the
\* recognizer proposes has a trigger word next to it, the intent is
\* "publico".  The texts are all those of Textos, "Hospital Dr. João Silva",
\* "Rua Maria Santos" and "Lei Carlos Alberto" among them, and the filter is
\* the one predict applies with usar_contexto true.
C6_DenominationsPublic ==
    \A r \in Results :
        (/\ usar_contexto
         /\ StructuredSpans = {}
         /\ PersonSpans # {}
         /\ \A ent \in PersonSpans : NearExclusion(ent))
        => r.intent = "publico"

\* C7: a name of at least two tokens with an individualizing verb in its
\* window and no trigger word in its window is reported, and the intent is
\* "tem_pii".
C7_VerbIsPersonal ==
    \A r \in Results : \A ent \in FullNameSpans :
        (NearVerb(ent) /\ ~InPublicContext(ent))
        => (Reported(r, ent) /\ r.intent = "tem_pii")

\* C8: with the context filter on, whether a name of at least two tokens is
\* reported depends only on the text around its own offsets: it is reported
\* if and only if no trigger word lies in the window of the span itself.
C8_PerSpanDecision ==
    \A r \in Results : \A ent \in FullNameSpans :
        usar_contexto => (Reported(r, ent) <=> ~InPublicContext(ent))

\* C9: with the context filter on, a name of at least two tokens that occurs
\* once in the text is left out only if a trigger word lies within 30
\* characters of the span.
C9_NarrowWindow ==
    \A r \in Results : \A ent \in FullNameSpans :
        (usar_contexto /\ OccursOnce(ent) /\ ~Reported(r, ent)) => NearExclusion(ent)

\* C10: the results predict returns for the same text on the same detector
\* are identical: intent, confidence and entity list in the same order.
C10_SameResult ==
    \A i, j \in 1..Len(returned) : returned[i] = returned[j]

\* A trained detector classified "João Silva solicitou acesso" twice and
\* reported the name both times.
C10_Witness ==
    /\ text = TXT_SOLICITOU /\ is_trained
    /\ Len(returned) = 2
    /\ \E ent \in FullNameSpans : Reported(returned[1], ent) /\ Reported(returned[2], ent)


\* The spans the recognizer may add to the ones it proposed.
MoreSpans ==
    {[start_char |-> sp.start_char, end_char |-> sp.end_char, label_ |-> lab] :
        sp \in CandidateSpans(text), lab \in Labels}

\* The intent when the recognizer adds any one span to those it proposed,
\* for the identifiers steps 1 and 2 of predict collect.
IntentsWithOneMore(identifiers) ==
    {Classify(text, WithNames(identifiers, text, usar_contexto, is_trained,
                              Append(doc_ents, ent))).intent :
        ent \in MoreSpans}

\* C11: the intent is monotonic in the span set: when the result for the
\* spans the recognizer proposed is "tem_pii", the result for those spans and
\* one more span is "tem_pii" too.
C11_MonotonicInSpans ==
    (is_trained /\ Len(returned) = 1 /\ returned[1].intent = "tem_pii")
    => IntentsWithOneMore(RegexEntities(text) \o ExtensoEntities(text))
         \subseteq {"tem_pii"}

\* A document classified "tem_pii" for one reported name, to which the
\* recognizer may add a name in public context.
C11_Witness ==
    /\ is_trained
    /\ usar_contexto
    /\ Len(returned) = 1
    /\ returned[1].intent = "tem_pii"
    /\ Len(doc_ents) = 1
    /\ Reported(returned[1], doc_ents[1])
    /\ \E ent \in MoreSpans :
          /\ KeepsEntUnfiltered(text, usar_contexto, ent)
          /\ ~KeepsEnt(text, usar_contexto, ent)

\* C18: the confidence is one constant for "tem_pii" and a lower one for
\* "publico", both between 0 and 1 (in hundredths), whatever the text and the
\* number of entities.
C18_ConfidenceByIntent ==
    \A r \in Results :
        /\ r.intent = "tem_pii" => r.confidence = 95
        /\ r.intent = "publico" => r.confidence = 85
        /\ r.confidence \in 0..100
        /\ r.intent = "tem_pii" \/ r.intent = "publico"

\* A result with intent "tem_pii" that has more than one entity.
C18_Witness ==
    \E r \in Results :
        /\ r.intent = "tem_pii"
        /\ Len(r.entities) >= 2
        /\ r.confidence = 95

\* The names the recognizer proposed that are a single token.
SingleNameSpans ==
    {ent \in PersonSpans : Len(Split(EntText(text, ent))) < 2}

\* C19: no PESSOA entity of a result has fewer than two tokens: a single
\* name the recognizer proposes is not reported, and when the recognizer
\* proposes single names only, an intent "tem_pii" is due to another entity.
C19_FullNamesOnly ==
    \A r \in Results :
        /\ \A k \in 1..Len(r.entities) :
              r.entities[k].entity = "PESSOA"
              => Len(Split(r.entities[k].value)) >= 2
        /\ \A ent \in SingleNameSpans : ~Reported(r, ent)
        /\ (PersonSpans \subseteq SingleNameSpans /\ r.intent = "tem_pii")
           => \E k \in 1..Len(r.entities) : r.entities[k].entity # "PESSOA"

\* A single name proposed for a bare text, with the context filter off, and
\* the document classified "publico".
C19_Witness ==
    /\ is_trained
    /\ ~usar_contexto
    /\ text = TXT_JOAO
    /\ SingleNameSpans # {}
    /\ \E r \in Results : r.intent = "publico" /\ r.entities = << >>

(***************************************************************************)
(* Properties of the functions of the module.                              *)
(***************************************************************************)
\* C13: with an empty exclusion lexicon no verdict is computed: the call
\* fails with LexiconNotLoaded.
C13_RefusesEmptyLexicon ==
    (chamada.lexico_vazio /\ retorno # << >>)
    => retorno[1].erro = "LexiconNotLoaded"

\* A span that is no span of the text: start after end, or an offset outside
\* the text.
Malformed(c) ==
    \/ c.pos_inicio > c.pos_fim
    \/ c.pos_inicio < 0
    \/ c.pos_fim > Len(c.texto)

\* C14: the exclusion check rejects a malformed span with InvalidSpan.
C14_RejectsMalformedSpan ==
    (/\ chamada.fn = "tem_contexto_publico"
     /\ retorno # << >>
     /\ Malformed(chamada))
    => retorno[1].erro = "InvalidSpan"

\* text[max(0, start - radius) : min(len(text), end + radius)] for a span of
\* the text.
ClampedSlice(t, start, end, radius) ==
    SubSeq(t, Max(0, start - radius) + 1, Min(Len(t), end + radius))

\* C15: for a span within the text and any radius the window is the
\* lowercased clamped slice and the call raises nothing; the context
\* extrair_contexto_nome returns is the clamped slice of radius 100 around
\* the first occurrence of the name, stripped.
C15_WindowClamped ==
    /\ (/\ chamada.fn = "tem_contexto_publico"
        /\ retorno # << >>
        /\ ~Malformed(chamada))
       => /\ retorno[1].erro = ""
          /\ retorno[1].contexto =
               LowerStr(ClampedSlice(chamada.texto, chamada.pos_inicio,
                                     chamada.pos_fim, chamada.janela))
    /\ (/\ chamada.fn = "extrair_contexto_nome"
        /\ retorno # << >>
        /\ OccurrencesIgnoreCase(chamada.nome, chamada.texto) # {})
       => /\ retorno[1].erro = ""
          /\ retorno[1].valor.contexto =
               Strip(ClampedSlice(
                   chamada.texto,
                   SetMin(OccurrencesIgnoreCase(chamada.nome, chamada.texto)),
                   SetMin(OccurrencesIgnoreCase(chamada.nome, chamada.texto))
                     + Len(chamada.nome),
                   JANELA_CONTEXTO))

\* A window whose radius overruns both ends of the text: it is the whole
\* text, lowercased.
C15_Witness ==
    /\ chamada.fn = "tem_contexto_publico"
    /\ chamada.texto = TXT_RUA
    /\ chamada.pos_inicio = 4
    /\ chamada.pos_fim = 9
    /\ chamada.janela = JANELA_PADRAO
    /\ retorno # << >>
    /\ retorno[1].contexto = LowerStr(TXT_RUA)
    /\ retorno[1].valor = TRUE

\* The number words of a text: a key of NUMEROS_EXTENSO in any case between
\* two word boundaries.
IsNumberWord(word) ==
    \E n \in 1..Len(NUMEROS_EXTENSO) : NUMEROS_EXTENSO[n].palavra = word

DigitsOf(word) ==
    NUMEROS_EXTENSO[CHOOSE n \in 1..Len(NUMEROS_EXTENSO) :
                        NUMEROS_EXTENSO[n].palavra = word].digitos

NumberWordsIn(t) ==
    {w \in {[start |-> a, end |-> a + n] : a \in 0..Len(t), n \in 2..6} :
        /\ w.end <= Len(t)
        /\ WordBoundary(t, w.start)
        /\ WordBoundary(t, w.end)
        /\ IsNumberWord(LowerStr(PySlice(t, w.start, w.end)))}

\* Word v comes right after word w: only whitespace, and some, in between.
Separated(t, w, v) ==
    /\ w.end < v.start
    /\ \A k \in (w.end + 1)..v.start : IsSpace(t[k])

\* The run of whitespace-separated number words that starts with word w.
RECURSIVE RunFrom(_, _, _)
RunFrom(t, words, w) ==
    IF \E v \in words : Separated(t, w, v)
    THEN <<w>> \o RunFrom(t, words, CHOOSE v \in words : Separated(t, w, v))
    ELSE <<w>>

\* The maximal runs: they start with a word no number word precedes.
Runs(t, words) ==
    {RunFrom(t, words, w) :
        w \in {h \in words : ~\E v \in words : Separated(t, v, h)}}

\* The digit values of the words of a run, concatenated in word order.
RunDigits(t, run) ==
    Join([i \in 1..Len(run) |->
            DigitsOf(LowerStr(PySlice(t, run[i].start, run[i].end)))])

\* The spans the runs of a text call for: three words or more, six digits
\* or more.
ExpectedNumbers(t, runs) ==
    {[start |-> run[1].start, end |-> run[Len(run)].end,
      valor_numerico |-> RunDigits(t, run)] :
        run \in {r \in runs : Len(r) >= 3 /\ Len(RunDigits(t, r)) >= 6}}

ReportedNumbers(items) ==
    {[start |-> items[n].start, end |-> items[n].end,
      valor_numerico |-> items[n].valor_numerico] : n \in 1..Len(items)}

\* C16: detectar_numeros_extenso returns a span for a run of number words
\* exactly when the run has three words or more and spells six digits or
\* more, and valor_numerico is the digits of the run in word order.
C16_NumberWordRuns ==
    (chamada.fn = "detectar_numeros_extenso" /\ retorno # << >>)
    => ReportedNumbers(retorno[1].valor)
         = ExpectedNumbers(chamada.texto,
                           Runs(chamada.texto, NumberWordsIn(chamada.texto)))

\* C17: a number in words of 11 digits is a CPF, of 9 digits an RG, of 12
\* digits a CIN.
C17_LabelByDigitCount ==
    (chamada.fn = "predict" /\ retorno # << >>)
    => \A k \in 1..Len(retorno[1].valor.entities) :
          retorno[1].valor.entities[k].extractor = "NumeroExtensoExtractor"
          => /\ Len(retorno[1].valor.entities[k].valor_numerico) = 11
                => retorno[1].valor.entities[k].entity = "CPF"
             /\ Len(retorno[1].valor.entities[k].valor_numerico) = 9
                => retorno[1].valor.entities[k].entity = "RG"
             /\ Len(retorno[1].valor.entities[k].valor_numerico) = 12
                => retorno[1].valor.entities[k].entity = "CIN"

\* A text with numbers of 9, 11 and 12 digits, classified.
C17_Witness ==
    /\ chamada.fn = "predict"
    /\ chamada.texto = EXT_DOCUMENTOS
    /\ retorno # << >>
    /\ Len(retorno[1].valor.entities) = 3
    /\ Len(retorno[1].valor.entities[1].valor_numerico) = 9
    /\ Len(retorno[1].valor.entities[2].valor_numerico) = 11
    /\ Len(retorno[1].valor.entities[3].valor_numerico) = 12
    /\ retorno[1].valor.entities[1].entity = "RG"
    /\ retorno[1].valor.entities[2].entity = "CPF"
    /\ retorno[1].valor.entities[3].entity = "CIN"


(***************************************************************************)
(* Properties of the application.                                          *)
(***************************************************************************)

\* The columns _process_csv adds (front_app.py 271-277).
ResultColumns == <<"intent", "confidence", "num_entities", "tem_pii">>

\* The button was pressed with a detector, a table and a column.
Processing ==
    /\ ProcessCsv
    /\ is_detector_ready
    /\ df_original # << >>
    /\ column # << >>

\* The row at which predict raised in the run that ends in the next state.
FailedRow ==
    FirstFailure(ColumnTexts(df_original[1], column[1]), pipeline')

\* The cell of a row of a table under a column name.
Cell(df, i, name) == df.rows[i][ColumnIndex(df, name)]

\* C12: when predict raises at a row, the batch still ends with a result
\* table that holds every input row with the result columns, shows it, has
\* the rows at which predict did not raise classified, and has a value that
\* is no intent in the row that failed.
C12_FailureIsolated ==
    [][(Processing /\ FailedRow > 0) =>
          /\ df_result' # << >>
          /\ Len(df_result'[1].rows) = Len(df_original[1].rows)
          /\ \A c \in 1..Len(ResultColumns) :
                ColumnIndex(df_result'[1], ResultColumns[c]) > 0
          /\ table_result' = df_result'[1]
          /\ \A i \in 1..Len(df_original[1].rows) :
                IF Outcome(pipeline',
                           ColumnTexts(df_original[1], column[1])[i]).raises
                THEN Cell(df_result'[1], i, "intent") \notin {"tem_pii", "publico"}
                ELSE Cell(df_result'[1], i, "intent")
                       = predict(ColumnTexts(df_original[1], column[1])[i],
                                 TRUE, is_trained,
                                 Outcome(pipeline',
                                         ColumnTexts(df_original[1],
                                                     column[1])[i]).ents).intent]_vars

\* C20: a run of _process_csv that ends in success leaves a result table
\* with the columns of the input followed by intent, confidence,
\* num_entities and tem_pii, the rows of the input in their order with
\* their cells, and in every row the intent and confidence predict returned
\* for the text of the row, the number of its entities, and 1 for tem_pii
\* and 0 for any other intent; the uploaded table stays as it was.
C20_BatchOutput ==
    [][(Processing /\ notifications' = "success") =>
          /\ df_result'[1].columns = df_original[1].columns \o ResultColumns
          /\ Len(df_result'[1].rows) = Len(df_original[1].rows)
          /\ Len(returned') = Len(df_original[1].rows)
          /\ \A i \in 1..Len(df_original[1].rows) :
                /\ df_result'[1].rows[i]
                     = df_original[1].rows[i]
                         \o <<returned'[i].intent,
                              returned'[i].confidence,
                              Len(returned'[i].entities),
                              IF returned'[i].intent = "tem_pii" THEN 1 ELSE 0>>
                /\ returned'[i]
                     = predict(ColumnTexts(df_original[1], column[1])[i],
                               TRUE, is_trained,
                               Outcome(pipeline',
                                       ColumnTexts(df_original[1],
                                                   column[1])[i]).ents)
          /\ df_original' = df_original
          /\ table_original' = table_original]_vars

(***************************************************************************)
(* Properties of the loop of _process_csv.                                 *)
(***************************************************************************)

\* C21: while a batch is on its way the progress value is within 0..100 and
\* at most the percentage of the rows classified so far, and no step of the
\* batch lowers it.
C21_ProgressMonotone ==
    /\ [](batch # << >> =>
            /\ batch[1].progress \in 0..100
            /\ batch[1].progress * batch[1].total <= batch[1].done * 100)
    /\ [][(BatchRow \/ BatchEnd) =>
            batch'[1].progress >= batch[1].progress]_vars

\* The bar shows a part of the table done, after the tenth row of more, and
\* the float has dropped a whole percentage by one.
C21_Witness ==
    /\ batch # << >>
    /\ batch[1].done > PASSO_PROGRESSO
    /\ batch[1].done < batch[1].total
    /\ batch[1].done % PASSO_PROGRESSO = 0
    /\ batch[1].progress > 0
    /\ batch[1].progress < 100
    /\ (batch[1].progress + 1) * batch[1].total = batch[1].done * 100

(***************************************************************************)
(* Properties of the module global.                                        *)
(***************************************************************************)

\* C22: no operation of the engine (train, load, save, predict,
\* tem_contexto_publico, extrair_contexto_nome, detectar_numeros_extenso,
\* generate_training_data) adds a word to
\* PALAVRAS_GATILHO_PUBLICO_NORMALIZED, removes one or changes one: the set
\* after the operation is the set before it.
C22_LexiconReadOnly == [][lexicon' = lexicon]_vars

\* The detector was trained or loaded and predict ran the recognizer on the
\* document, extrair_contexto_nome found trigger words around a name,
\* generate_training_data returned its examples, and the module global is
\* the set that was built at import.
C22_Witness ==
    /\ is_trained
    /\ doc_known
    /\ returned # << >>
    /\ chamada.fn = "extrair_contexto_nome"
    /\ retorno # << >>
    /\ retorno[1].valor.tem_contexto_publico
    /\ gen[1].returned
    /\ gen[1].examples # << >>
    /\ lexicon = PALAVRAS_GATILHO_PUBLICO_NORMALIZED

(***************************************************************************)
(* Properties of predict under interleaving.                               *)
(***************************************************************************)

\* C23: however the steps of the calls interleave, a call that returned
\* has returned what predict returns for its document when it runs alone.
C23_ConcurrentPredict ==
    \A i \in DOMAIN calls :
        calls[i].pc = "done" =>
            calls[i].result
              = <<predict(calls[i].text, calls[i].usar_contexto, is_trained,
                          calls[i].ents)>>

\* A call on one document returned personal data while a call on another
\* document is half way with entities of its own.
C23_Witness ==
    \E i, j \in DOMAIN calls :
        /\ calls[i].pc = "done"
        /\ calls[i].result[1].intent = "tem_pii"
        /\ calls[j].pc = "ner"
        /\ calls[j].entities # << >>
        /\ calls[j].text # calls[i].text

(***************************************************************************)
(* Properties of the exclusion of a name.                                  *)
(***************************************************************************)

\* C24: with the context filter on, a name of at least two tokens that a
\* trained detector was given is left out of the result if and only if some
\* word of PALAVRAS_GATILHO_PUBLICO_NORMALIZED lies in the lowercased window
\* around the name; which words were found, and in which order, plays no
\* part.
C24_ExistenceOnly ==
    \A r \in Results : \A ent \in FullNameSpans :
        (is_trained /\ usar_contexto)
        => (~Reported(r, ent) <=> InPublicContext(ent))

(***************************************************************************)
(* Properties of the training state.                                       *)
(***************************************************************************)

\* C25: a detector starts with _is_trained false; while it is false predict
\* does not run the recognizer and returns the entities of the patterns and
\* of the numbers in words only, none of them a PESSOA; _is_trained becomes
\* true in train and load only, and once true it stays true.
C25_RecognizerGating ==
    /\ ~is_trained
    /\ [](~is_trained =>
            /\ ~doc_known
            /\ \A r \in Results :
                  /\ r.entities = RegexEntities(text) \o ExtensoEntities(text)
                  /\ \A k \in 1..Len(r.entities) :
                        r.entities[k].entity # "PESSOA")
    /\ [][(~is_trained /\ is_trained') => (Train \/ Load)]_vars
    /\ [][is_trained => is_trained']_vars

\* An untrained detector returned a result for "João Silva": no entity.
C25_Witness ==
    /\ ~is_trained
    /\ text = TXT_JOAO
    /\ returned # << >>
    /\ returned[1].entities = << >>

(***************************************************************************)
(* Properties of the widgets of the application.                           *)
(***************************************************************************)

\* The table has the four result columns.
Classified(df) ==
    \A c \in 1..Len(ResultColumns) : ColumnIndex(df, ResultColumns[c]) > 0

\* C26: whenever the download button is visible, the table _download_csv
\* writes, df_result, has the columns intent, confidence, num_entities and
\* tem_pii with a value in every row, also after a later run that failed.
C26_DownloadClassified ==
    download_button_visible =>
        /\ df_result # << >>
        /\ Classified(df_result[1])
        /\ \A i \in 1..Len(df_result[1].rows) :
              Len(df_result[1].rows[i]) = Len(df_result[1].columns)

\* C27: the process button is enabled only with a detector that is ready, a
\* table loaded and a column selected; the upload is enabled only with a
\* detector that is ready; and a press of the button without a detector or
\* without a table calls predict for no row and leaves every field and
\* widget as it was.
C27_UiGating ==
    /\ [](~process_button_disabled =>
            (is_detector_ready /\ df_original # << >> /\ column # << >>))
    /\ [](~csv_upload_disabled => is_detector_ready)
    /\ [][((~is_detector_ready \/ df_original = << >>) /\ ProcessCsv) =>
            UNCHANGED <<returned, pipeline, is_detector_ready, df_original,
                        column, df_result, table_original, table_result,
                        uploads, widgetVars>>]_vars

\* A table was uploaded to a ready detector, a column is selected and the
\* button is enabled.
C27_Witness ==
    /\ ~process_button_disabled
    /\ ~csv_upload_disabled
    /\ is_detector_ready
    /\ df_original # << >>
    /\ column # << >>

\* C28: a run of _process_csv over a table without rows ends in success: the
\* result table with the four columns is shown and the download button is
\* visible.
C28_EmptyTable ==
    [][(Processing /\ Len(df_original[1].rows) = 0) =>
          /\ notifications' = "success"
          /\ df_result' # << >>
          /\ Classified(df_result'[1])
          /\ table_result' = df_result'[1]
          /\ download_button_visible']_vars

(***************************************************************************)
(* Properties of the training data generator.                              *)
(***************************************************************************)

\* generate_training_data has returned.
GenReturned == IF gen = << >> THEN FALSE ELSE gen[1].returned

\* C29: every entity of every generated example lies inside its text, is
\* not empty, and the text between its offsets is its value, also in the
\* templates with two placeholders; and the number of examples is n_public
\* + n_pii, plus min(100, n_pii // 5) with incluir_extenso.
C29_GeneratorEntities ==
    GenReturned =>
        /\ Len(gen[1].examples) =
              gen[1].n_public + gen[1].n_pii
                + (IF gen[1].incluir_extenso
                   THEN Min(100, gen[1].n_pii \div 5) ELSE 0)
        /\ \A j \in 1..Len(gen[1].examples) :
              \A e \in 1..Len(gen[1].examples[j].entities) :
                 /\ 0 <= gen[1].examples[j].entities[e].start
                 /\ gen[1].examples[j].entities[e].start
                       < gen[1].examples[j].entities[e].end
                 /\ gen[1].examples[j].entities[e].end
                       <= Len(gen[1].examples[j].text)
                 /\ PySlice(gen[1].examples[j].text,
                            gen[1].examples[j].entities[e].start,
                            gen[1].examples[j].entities[e].end)
                       = gen[1].examples[j].entities[e].value

\* More than 100 examples in words were due and a template with two
\* placeholders was filled.
C29_Witness ==
    /\ GenReturned
    /\ gen[1].incluir_extenso
    /\ gen[1].n_pii \div 5 > 100
    /\ \E j \in 1..Len(gen[1].examples) :
          Len(gen[1].examples[j].entities) = 2

\* The examples of numbers in words.
IsExtensoExample(example) ==
    IF example.entities = << >> THEN FALSE
    ELSE example.entities[1].role = "documento_extenso"

\* The entities predict reports for the numbers in words of a text that have
\* as many digits as the generated value has words.
PredictedExtenso(example) ==
    LET found == predict(example.text, TRUE, FALSE, << >>).entities
    IN  {found[n] : n \in
            {m \in 1..Len(found) :
                /\ found[m].extractor = "NumeroExtensoExtractor"
                /\ Len(found[m].valor_numerico)
                      = Len(Split(example.entities[1].value))}}

\* C30: the label the generator gives a number in words of 9, 10 or 11
\* digits is the label predict gives a number in words of as many digits.
C30_LabelAgreement ==
    GenReturned =>
        \A j \in 1..Len(gen[1].examples) :
            IsExtensoExample(gen[1].examples[j]) =>
                /\ PredictedExtenso(gen[1].examples[j]) # {}
                /\ \A p \in PredictedExtenso(gen[1].examples[j]) :
                      p.entity = gen[1].examples[j].entities[1].entity

=============================================================================
